---- MODULE Spec2Model ----
(***************************************************************************)
(* Terminal-Bench result pipeline of coder/mux:                            *)
(*   - download_run_logs.py: find_trial_results, _get_passed and the       *)
(*     per-model summary of main                                           *)
(*   - upload-tbench-results.py: build_rows (accuracy, rows, counts)       *)
(*   - prepare_leaderboard_submission.py: prepare_submission               *)
(*                                                                         *)
(* JSON values are records [t, n, s]: t is the JSON type ("absent" stands  *)
(* for a key that is not in the enclosing object), n the number (or 0/1    *)
(* for a boolean, or the length of a list), s the characters of a string.  *)
(* A Python call either returns a value or raises: an outcome is           *)
(* [exc, val] with exc = "none" for a normal return.                       *)
(***************************************************************************)
EXTENDS Integers, Sequences, FiniteSets, TLC

\* ------------------------------------------------------------------ bounds

\* Numbers of a payload range over -MaxNum..MaxNum.
MaxNum == 5

\* ------------------------------------------------------------- JSON values

Absent == [t |-> "absent", n |-> 0, s |-> <<>>]
Null == [t |-> "null", n |-> 0, s |-> <<>>]
JTrue == [t |-> "bool", n |-> 1, s |-> <<>>]
JFalse == [t |-> "bool", n |-> 0, s |-> <<>>]
EmptyList == [t |-> "list", n |-> 0, s |-> <<>>]
Num(k) == [t |-> "num", n |-> k, s |-> <<>>]
Str(cs) == [t |-> "str", n |-> 0, s |-> cs]
PyBool(b) == IF b THEN JTrue ELSE JFalse

\* ------------------------------------------------------------------ strings

\* A Python str is the sequence of its characters. Ascii lists the printable
\* characters from code point 32 on (the double quote, the backslash and the
\* backquote by name), so CodePoint orders characters as Python's str comparison does.
Ascii ==
  <<" ", "!", "(quote)", "#", "$", "%", "&", "'", "(", ")", "*", "+", ",", "-",
    ".", "/", "0", "1", "2", "3", "4", "5", "6", "7", "8", "9", ":", ";",
    "<", "=", ">", "?", "@", "A", "B", "C", "D", "E", "F", "G", "H", "I",
    "J", "K", "L", "M", "N", "O", "P", "Q", "R", "S", "T", "U", "V", "W",
    "X", "Y", "Z", "[", "(backslash)", "]", "^", "_", "(backquote)", "a", "b", "c", "d", "e",
    "f", "g", "h", "i", "j", "k", "l", "m", "n", "o", "p", "q", "r", "s",
    "t", "u", "v", "w", "x", "y", "z", "{", "|", "}", "~">>
CodePoints ==
  [c \in {Ascii[i] : i \in 1..Len(Ascii)} |->
     31 + (CHOOSE i \in 1..Len(Ascii) : Ascii[i] = c)]
CodePoint(c) == CodePoints[c]

\* a < b for two str.
RECURSIVE StrLess(_, _)
StrLess(a, b) ==
  IF b = <<>> THEN FALSE
  ELSE IF a = <<>> THEN TRUE
  ELSE IF a[1] # b[1] THEN CodePoint(a[1]) < CodePoint(b[1])
  ELSE StrLess(Tail(a), Tail(b))

\* s.startswith(p)
StartsWith(s, p) == Len(s) >= Len(p) /\ SubSeq(s, 1, Len(p)) = p

\* s.rfind(p) for a non-empty p, as a 1-based index, 0 when p does not occur:
\* the search runs from the right end of s.
RECURSIVE RFindFrom(_, _, _)
RFindFrom(s, p, i) ==
  IF i < 1 THEN 0
  ELSE IF SubSeq(s, i, i + Len(p) - 1) = p THEN i
  ELSE RFindFrom(s, p, i - 1)
RFind(s, p) == RFindFrom(s, p, Len(s) - Len(p) + 1)

\* s.find(p), likewise, from the left end.
RECURSIVE FindFrom(_, _, _)
FindFrom(s, p, i) ==
  IF i > Len(s) - Len(p) + 1 THEN 0
  ELSE IF SubSeq(s, i, i + Len(p) - 1) = p THEN i
  ELSE FindFrom(s, p, i + 1)
Find(s, p) == FindFrom(s, p, 1)

\* Mutant of RSplitHead: s.rpartition(p)[0], which is empty when p does not
\* occur in s.
RPartitionHead(s, p) ==
  LET i == RFind(s, p) IN IF i = 0 THEN <<>> ELSE SubSeq(s, 1, i - 1)

\* Mutant of RSplitHead: the split is at the first occurrence, s.split(p, 1)[0].
SplitHead(s, p) ==
  LET i == Find(s, p) IN IF i = 0 THEN s ELSE SubSeq(s, 1, i - 1)

\* s.rsplit(p, 1)[0]: s up to its last occurrence of p, all of s without one.
RSplitHead(s, p) ==
  LET i == RFind(s, p) IN IF i = 0 THEN s ELSE SubSeq(s, 1, i - 1)

\* A Python call's outcome: a returned value, or a raised exception.
Return(v) == [exc |-> "none", val |-> v]
Raise(e) == [exc |-> e, val |-> Null]

DigitVal == [c \in {"0", "1", "2", "3", "4", "5", "6", "7", "8", "9"} |->
               CASE c = "0" -> 0 [] c = "1" -> 1 [] c = "2" -> 2 [] c = "3" -> 3
                 [] c = "4" -> 4 [] c = "5" -> 5 [] c = "6" -> 6 [] c = "7" -> 7
                 [] c = "8" -> 8 [] c = "9" -> 9]

RECURSIVE DigitsValue(_)
DigitsValue(cs) ==
  IF cs = <<>> THEN 0
  ELSE 10 * DigitsValue(SubSeq(cs, 1, Len(cs) - 1)) + DigitVal[cs[Len(cs)]]

\* A Python float, as far as `> 0` needs it: nan, an infinity, or the finite
\* value sign * 0.d1d2...dn * 10^exp with d1 and dn non-zero digits (no digits
\* at all for a zero, which keeps its sign).
FloatNaN == [kind |-> "nan", sign |-> 1, digits |-> <<>>, exp |-> 0]
FloatInf(sg) == [kind |-> "inf", sign |-> sg, digits |-> <<>>, exp |-> 0]
FloatZero(sg) == [kind |-> "finite", sign |-> sg, digits |-> <<>>, exp |-> 0]

\* A character outside printable ASCII is written by its code point, as in
\* "(U+000B)" for the vertical tab.

\* The characters float() strips from both ends of the ASCII text it parses:
\* tab, line feed, vertical tab, form feed, carriage return, space. (The
\* separators U+001C to U+001F, which str.strip() removes, are not among them.)
Whitespace == {" ", "\t", "\n", "(U+000B)", "\f", "\r"}

\* The white space outside ASCII, which float() turns into a space before it
\* parses a str.
UnicodeSpaces ==
  {"(U+0085)", "(U+00A0)", "(U+1680)", "(U+2000)", "(U+2001)", "(U+2002)",
   "(U+2003)", "(U+2004)", "(U+2005)", "(U+2006)", "(U+2007)", "(U+2008)",
   "(U+2009)", "(U+200A)", "(U+2028)", "(U+2029)", "(U+202F)", "(U+205F)",
   "(U+3000)"}

\* The decimal digits outside ASCII (category Nd of Unicode 14.0, the
\* interpreter's version), which float() turns into ASCII digits: one row for
\* each script, from its zero to its nine.
UnicodeDigitRows ==
  <<
    <<"(U+0660)", "(U+0661)", "(U+0662)", "(U+0663)", "(U+0664)",
      "(U+0665)", "(U+0666)", "(U+0667)", "(U+0668)", "(U+0669)">>,
    <<"(U+06F0)", "(U+06F1)", "(U+06F2)", "(U+06F3)", "(U+06F4)",
      "(U+06F5)", "(U+06F6)", "(U+06F7)", "(U+06F8)", "(U+06F9)">>,
    <<"(U+07C0)", "(U+07C1)", "(U+07C2)", "(U+07C3)", "(U+07C4)",
      "(U+07C5)", "(U+07C6)", "(U+07C7)", "(U+07C8)", "(U+07C9)">>,
    <<"(U+0966)", "(U+0967)", "(U+0968)", "(U+0969)", "(U+096A)",
      "(U+096B)", "(U+096C)", "(U+096D)", "(U+096E)", "(U+096F)">>,
    <<"(U+09E6)", "(U+09E7)", "(U+09E8)", "(U+09E9)", "(U+09EA)",
      "(U+09EB)", "(U+09EC)", "(U+09ED)", "(U+09EE)", "(U+09EF)">>,
    <<"(U+0A66)", "(U+0A67)", "(U+0A68)", "(U+0A69)", "(U+0A6A)",
      "(U+0A6B)", "(U+0A6C)", "(U+0A6D)", "(U+0A6E)", "(U+0A6F)">>,
    <<"(U+0AE6)", "(U+0AE7)", "(U+0AE8)", "(U+0AE9)", "(U+0AEA)",
      "(U+0AEB)", "(U+0AEC)", "(U+0AED)", "(U+0AEE)", "(U+0AEF)">>,
    <<"(U+0B66)", "(U+0B67)", "(U+0B68)", "(U+0B69)", "(U+0B6A)",
      "(U+0B6B)", "(U+0B6C)", "(U+0B6D)", "(U+0B6E)", "(U+0B6F)">>,
    <<"(U+0BE6)", "(U+0BE7)", "(U+0BE8)", "(U+0BE9)", "(U+0BEA)",
      "(U+0BEB)", "(U+0BEC)", "(U+0BED)", "(U+0BEE)", "(U+0BEF)">>,
    <<"(U+0C66)", "(U+0C67)", "(U+0C68)", "(U+0C69)", "(U+0C6A)",
      "(U+0C6B)", "(U+0C6C)", "(U+0C6D)", "(U+0C6E)", "(U+0C6F)">>,
    <<"(U+0CE6)", "(U+0CE7)", "(U+0CE8)", "(U+0CE9)", "(U+0CEA)",
      "(U+0CEB)", "(U+0CEC)", "(U+0CED)", "(U+0CEE)", "(U+0CEF)">>,
    <<"(U+0D66)", "(U+0D67)", "(U+0D68)", "(U+0D69)", "(U+0D6A)",
      "(U+0D6B)", "(U+0D6C)", "(U+0D6D)", "(U+0D6E)", "(U+0D6F)">>,
    <<"(U+0DE6)", "(U+0DE7)", "(U+0DE8)", "(U+0DE9)", "(U+0DEA)",
      "(U+0DEB)", "(U+0DEC)", "(U+0DED)", "(U+0DEE)", "(U+0DEF)">>,
    <<"(U+0E50)", "(U+0E51)", "(U+0E52)", "(U+0E53)", "(U+0E54)",
      "(U+0E55)", "(U+0E56)", "(U+0E57)", "(U+0E58)", "(U+0E59)">>,
    <<"(U+0ED0)", "(U+0ED1)", "(U+0ED2)", "(U+0ED3)", "(U+0ED4)",
      "(U+0ED5)", "(U+0ED6)", "(U+0ED7)", "(U+0ED8)", "(U+0ED9)">>,
    <<"(U+0F20)", "(U+0F21)", "(U+0F22)", "(U+0F23)", "(U+0F24)",
      "(U+0F25)", "(U+0F26)", "(U+0F27)", "(U+0F28)", "(U+0F29)">>,
    <<"(U+1040)", "(U+1041)", "(U+1042)", "(U+1043)", "(U+1044)",
      "(U+1045)", "(U+1046)", "(U+1047)", "(U+1048)", "(U+1049)">>,
    <<"(U+1090)", "(U+1091)", "(U+1092)", "(U+1093)", "(U+1094)",
      "(U+1095)", "(U+1096)", "(U+1097)", "(U+1098)", "(U+1099)">>,
    <<"(U+17E0)", "(U+17E1)", "(U+17E2)", "(U+17E3)", "(U+17E4)",
      "(U+17E5)", "(U+17E6)", "(U+17E7)", "(U+17E8)", "(U+17E9)">>,
    <<"(U+1810)", "(U+1811)", "(U+1812)", "(U+1813)", "(U+1814)",
      "(U+1815)", "(U+1816)", "(U+1817)", "(U+1818)", "(U+1819)">>,
    <<"(U+1946)", "(U+1947)", "(U+1948)", "(U+1949)", "(U+194A)",
      "(U+194B)", "(U+194C)", "(U+194D)", "(U+194E)", "(U+194F)">>,
    <<"(U+19D0)", "(U+19D1)", "(U+19D2)", "(U+19D3)", "(U+19D4)",
      "(U+19D5)", "(U+19D6)", "(U+19D7)", "(U+19D8)", "(U+19D9)">>,
    <<"(U+1A80)", "(U+1A81)", "(U+1A82)", "(U+1A83)", "(U+1A84)",
      "(U+1A85)", "(U+1A86)", "(U+1A87)", "(U+1A88)", "(U+1A89)">>,
    <<"(U+1A90)", "(U+1A91)", "(U+1A92)", "(U+1A93)", "(U+1A94)",
      "(U+1A95)", "(U+1A96)", "(U+1A97)", "(U+1A98)", "(U+1A99)">>,
    <<"(U+1B50)", "(U+1B51)", "(U+1B52)", "(U+1B53)", "(U+1B54)",
      "(U+1B55)", "(U+1B56)", "(U+1B57)", "(U+1B58)", "(U+1B59)">>,
    <<"(U+1BB0)", "(U+1BB1)", "(U+1BB2)", "(U+1BB3)", "(U+1BB4)",
      "(U+1BB5)", "(U+1BB6)", "(U+1BB7)", "(U+1BB8)", "(U+1BB9)">>,
    <<"(U+1C40)", "(U+1C41)", "(U+1C42)", "(U+1C43)", "(U+1C44)",
      "(U+1C45)", "(U+1C46)", "(U+1C47)", "(U+1C48)", "(U+1C49)">>,
    <<"(U+1C50)", "(U+1C51)", "(U+1C52)", "(U+1C53)", "(U+1C54)",
      "(U+1C55)", "(U+1C56)", "(U+1C57)", "(U+1C58)", "(U+1C59)">>,
    <<"(U+A620)", "(U+A621)", "(U+A622)", "(U+A623)", "(U+A624)",
      "(U+A625)", "(U+A626)", "(U+A627)", "(U+A628)", "(U+A629)">>,
    <<"(U+A8D0)", "(U+A8D1)", "(U+A8D2)", "(U+A8D3)", "(U+A8D4)",
      "(U+A8D5)", "(U+A8D6)", "(U+A8D7)", "(U+A8D8)", "(U+A8D9)">>,
    <<"(U+A900)", "(U+A901)", "(U+A902)", "(U+A903)", "(U+A904)",
      "(U+A905)", "(U+A906)", "(U+A907)", "(U+A908)", "(U+A909)">>,
    <<"(U+A9D0)", "(U+A9D1)", "(U+A9D2)", "(U+A9D3)", "(U+A9D4)",
      "(U+A9D5)", "(U+A9D6)", "(U+A9D7)", "(U+A9D8)", "(U+A9D9)">>,
    <<"(U+A9F0)", "(U+A9F1)", "(U+A9F2)", "(U+A9F3)", "(U+A9F4)",
      "(U+A9F5)", "(U+A9F6)", "(U+A9F7)", "(U+A9F8)", "(U+A9F9)">>,
    <<"(U+AA50)", "(U+AA51)", "(U+AA52)", "(U+AA53)", "(U+AA54)",
      "(U+AA55)", "(U+AA56)", "(U+AA57)", "(U+AA58)", "(U+AA59)">>,
    <<"(U+ABF0)", "(U+ABF1)", "(U+ABF2)", "(U+ABF3)", "(U+ABF4)",
      "(U+ABF5)", "(U+ABF6)", "(U+ABF7)", "(U+ABF8)", "(U+ABF9)">>,
    <<"(U+FF10)", "(U+FF11)", "(U+FF12)", "(U+FF13)", "(U+FF14)",
      "(U+FF15)", "(U+FF16)", "(U+FF17)", "(U+FF18)", "(U+FF19)">>,
    <<"(U+104A0)", "(U+104A1)", "(U+104A2)", "(U+104A3)", "(U+104A4)",
      "(U+104A5)", "(U+104A6)", "(U+104A7)", "(U+104A8)", "(U+104A9)">>,
    <<"(U+10D30)", "(U+10D31)", "(U+10D32)", "(U+10D33)", "(U+10D34)",
      "(U+10D35)", "(U+10D36)", "(U+10D37)", "(U+10D38)", "(U+10D39)">>,
    <<"(U+11066)", "(U+11067)", "(U+11068)", "(U+11069)", "(U+1106A)",
      "(U+1106B)", "(U+1106C)", "(U+1106D)", "(U+1106E)", "(U+1106F)">>,
    <<"(U+110F0)", "(U+110F1)", "(U+110F2)", "(U+110F3)", "(U+110F4)",
      "(U+110F5)", "(U+110F6)", "(U+110F7)", "(U+110F8)", "(U+110F9)">>,
    <<"(U+11136)", "(U+11137)", "(U+11138)", "(U+11139)", "(U+1113A)",
      "(U+1113B)", "(U+1113C)", "(U+1113D)", "(U+1113E)", "(U+1113F)">>,
    <<"(U+111D0)", "(U+111D1)", "(U+111D2)", "(U+111D3)", "(U+111D4)",
      "(U+111D5)", "(U+111D6)", "(U+111D7)", "(U+111D8)", "(U+111D9)">>,
    <<"(U+112F0)", "(U+112F1)", "(U+112F2)", "(U+112F3)", "(U+112F4)",
      "(U+112F5)", "(U+112F6)", "(U+112F7)", "(U+112F8)", "(U+112F9)">>,
    <<"(U+11450)", "(U+11451)", "(U+11452)", "(U+11453)", "(U+11454)",
      "(U+11455)", "(U+11456)", "(U+11457)", "(U+11458)", "(U+11459)">>,
    <<"(U+114D0)", "(U+114D1)", "(U+114D2)", "(U+114D3)", "(U+114D4)",
      "(U+114D5)", "(U+114D6)", "(U+114D7)", "(U+114D8)", "(U+114D9)">>,
    <<"(U+11650)", "(U+11651)", "(U+11652)", "(U+11653)", "(U+11654)",
      "(U+11655)", "(U+11656)", "(U+11657)", "(U+11658)", "(U+11659)">>,
    <<"(U+116C0)", "(U+116C1)", "(U+116C2)", "(U+116C3)", "(U+116C4)",
      "(U+116C5)", "(U+116C6)", "(U+116C7)", "(U+116C8)", "(U+116C9)">>,
    <<"(U+11730)", "(U+11731)", "(U+11732)", "(U+11733)", "(U+11734)",
      "(U+11735)", "(U+11736)", "(U+11737)", "(U+11738)", "(U+11739)">>,
    <<"(U+118E0)", "(U+118E1)", "(U+118E2)", "(U+118E3)", "(U+118E4)",
      "(U+118E5)", "(U+118E6)", "(U+118E7)", "(U+118E8)", "(U+118E9)">>,
    <<"(U+11950)", "(U+11951)", "(U+11952)", "(U+11953)", "(U+11954)",
      "(U+11955)", "(U+11956)", "(U+11957)", "(U+11958)", "(U+11959)">>,
    <<"(U+11C50)", "(U+11C51)", "(U+11C52)", "(U+11C53)", "(U+11C54)",
      "(U+11C55)", "(U+11C56)", "(U+11C57)", "(U+11C58)", "(U+11C59)">>,
    <<"(U+11D50)", "(U+11D51)", "(U+11D52)", "(U+11D53)", "(U+11D54)",
      "(U+11D55)", "(U+11D56)", "(U+11D57)", "(U+11D58)", "(U+11D59)">>,
    <<"(U+11DA0)", "(U+11DA1)", "(U+11DA2)", "(U+11DA3)", "(U+11DA4)",
      "(U+11DA5)", "(U+11DA6)", "(U+11DA7)", "(U+11DA8)", "(U+11DA9)">>,
    <<"(U+16A60)", "(U+16A61)", "(U+16A62)", "(U+16A63)", "(U+16A64)",
      "(U+16A65)", "(U+16A66)", "(U+16A67)", "(U+16A68)", "(U+16A69)">>,
    <<"(U+16AC0)", "(U+16AC1)", "(U+16AC2)", "(U+16AC3)", "(U+16AC4)",
      "(U+16AC5)", "(U+16AC6)", "(U+16AC7)", "(U+16AC8)", "(U+16AC9)">>,
    <<"(U+16B50)", "(U+16B51)", "(U+16B52)", "(U+16B53)", "(U+16B54)",
      "(U+16B55)", "(U+16B56)", "(U+16B57)", "(U+16B58)", "(U+16B59)">>,
    <<"(U+1D7CE)", "(U+1D7CF)", "(U+1D7D0)", "(U+1D7D1)", "(U+1D7D2)",
      "(U+1D7D3)", "(U+1D7D4)", "(U+1D7D5)", "(U+1D7D6)", "(U+1D7D7)">>,
    <<"(U+1D7D8)", "(U+1D7D9)", "(U+1D7DA)", "(U+1D7DB)", "(U+1D7DC)",
      "(U+1D7DD)", "(U+1D7DE)", "(U+1D7DF)", "(U+1D7E0)", "(U+1D7E1)">>,
    <<"(U+1D7E2)", "(U+1D7E3)", "(U+1D7E4)", "(U+1D7E5)", "(U+1D7E6)",
      "(U+1D7E7)", "(U+1D7E8)", "(U+1D7E9)", "(U+1D7EA)", "(U+1D7EB)">>,
    <<"(U+1D7EC)", "(U+1D7ED)", "(U+1D7EE)", "(U+1D7EF)", "(U+1D7F0)",
      "(U+1D7F1)", "(U+1D7F2)", "(U+1D7F3)", "(U+1D7F4)", "(U+1D7F5)">>,
    <<"(U+1D7F6)", "(U+1D7F7)", "(U+1D7F8)", "(U+1D7F9)", "(U+1D7FA)",
      "(U+1D7FB)", "(U+1D7FC)", "(U+1D7FD)", "(U+1D7FE)", "(U+1D7FF)">>,
    <<"(U+1E140)", "(U+1E141)", "(U+1E142)", "(U+1E143)", "(U+1E144)",
      "(U+1E145)", "(U+1E146)", "(U+1E147)", "(U+1E148)", "(U+1E149)">>,
    <<"(U+1E2F0)", "(U+1E2F1)", "(U+1E2F2)", "(U+1E2F3)", "(U+1E2F4)",
      "(U+1E2F5)", "(U+1E2F6)", "(U+1E2F7)", "(U+1E2F8)", "(U+1E2F9)">>,
    <<"(U+1E950)", "(U+1E951)", "(U+1E952)", "(U+1E953)", "(U+1E954)",
      "(U+1E955)", "(U+1E956)", "(U+1E957)", "(U+1E958)", "(U+1E959)">>,
    <<"(U+1FBF0)", "(U+1FBF1)", "(U+1FBF2)", "(U+1FBF3)", "(U+1FBF4)",
      "(U+1FBF5)", "(U+1FBF6)", "(U+1FBF7)", "(U+1FBF8)", "(U+1FBF9)">>
  >>
AsciiDigits == <<"0", "1", "2", "3", "4", "5", "6", "7", "8", "9">>
UnicodeDigits ==
  [c \in {UnicodeDigitRows[r][k] : r \in DOMAIN UnicodeDigitRows, k \in 1..10} |->
     AsciiDigits[CHOOSE k \in 1..10 :
                   \E r \in DOMAIN UnicodeDigitRows : UnicodeDigitRows[r][k] = c]]

\* What float() makes of a str before parsing it: white space and decimal
\* digits outside ASCII become a space and the ASCII digit. (Any other
\* character outside ASCII becomes "?"; here it stays, and is as little part
\* of a float literal.)
TransformDecimalAndSpaceToASCII(cs) ==
  [i \in 1..Len(cs) |->
     IF cs[i] \in UnicodeSpaces THEN " "
     ELSE IF cs[i] \in DOMAIN UnicodeDigits THEN UnicodeDigits[cs[i]]
     ELSE cs[i]]

\* The least and the greatest index of cs whose character is not in set, 0
\* when every character is.
FirstNotIn(cs, set) ==
  LET idx == {i \in 1..Len(cs) : cs[i] \notin set}
  IN IF idx = {} THEN 0 ELSE CHOOSE i \in idx : \A j \in idx : i <= j
LastNotIn(cs, set) ==
  LET idx == {i \in 1..Len(cs) : cs[i] \notin set}
  IN IF idx = {} THEN 0 ELSE CHOOSE i \in idx : \A j \in idx : i >= j

\* The text between the leading and the trailing white space of cs.
Strip(cs) ==
  IF FirstNotIn(cs, Whitespace) = 0 THEN <<>>
  ELSE SubSeq(cs, FirstNotIn(cs, Whitespace), LastNotIn(cs, Whitespace))

\* cs.lower() == w, for a word w of lower-case letters and its upper-case W.
EqualsIgnoringCase(cs, w, W) ==
  Len(cs) = Len(w) /\ \A i \in 1..Len(w) : cs[i] \in {w[i], W[i]}
S_inf == <<"i", "n", "f">>
S_INF == <<"I", "N", "F">>
S_infinity == <<"i", "n", "f", "i", "n", "i", "t", "y">>
S_INFINITY == <<"I", "N", "F", "I", "N", "I", "T", "Y">>
S_nan == <<"n", "a", "n">>
S_NAN == <<"N", "A", "N">>

\* The 1-based index of the first character of cs that is in set, 0 without one.
FirstIn(cs, set) ==
  LET idx == {i \in 1..Len(cs) : cs[i] \in set}
  IN IF idx = {} THEN 0 ELSE CHOOSE i \in idx : \A j \in idx : i <= j

\* A digit part of a float literal: digits, with single underscores allowed
\* between two digits only.
IsDigitPart(cs) ==
  /\ Len(cs) > 0
  /\ \A i \in 1..Len(cs) : cs[i] \in DOMAIN DigitVal \cup {"_"}
  /\ cs[1] # "_" /\ cs[Len(cs)] # "_"
  /\ \A i \in 1..(Len(cs) - 1) : ~(cs[i] = "_" /\ cs[i + 1] = "_")

WithoutUnderscores(cs) == SelectSeq(cs, LAMBDA c : c # "_")

DropLeadingZeros(ds) ==
  IF FirstNotIn(ds, {"0"}) = 0 THEN <<>>
  ELSE SubSeq(ds, FirstNotIn(ds, {"0"}), Len(ds))
DropTrailingZeros(ds) == SubSeq(ds, 1, LastNotIn(ds, {"0"}))

\* An exponent of more digits than this is out of the range of a double
\* whatever the mantissa of a str of realistic length.
MaxExponentDigits == 6
ExponentValue(ds) ==
  LET sig == DropLeadingZeros(ds)
  IN IF Len(sig) > MaxExponentDigits THEN 1000000 ELSE DigitsValue(sig)

\* The digits of 2^1024 - 2^970 = 0.d1...dn * 10^309, half way between the
\* largest double and 2^1024: a value from there on rounds to an infinity.
OverflowDigits ==
  <<"1", "7", "9", "7", "6", "9", "3", "1", "3", "4", "8", "6", "2", "3",
    "1", "5", "8", "0", "7", "9", "3", "7", "2", "8", "9", "7", "1", "4",
    "0", "5", "3", "0", "3", "4", "1", "5", "0", "7", "9", "9", "3", "4",
    "1", "3", "2", "7", "1", "0", "0", "3", "7", "8", "2", "6", "9", "3",
    "6", "1", "7", "3", "7", "7", "8", "9", "8", "0", "4", "4", "4", "9",
    "6", "8", "2", "9", "2", "7", "6", "4", "7", "5", "0", "9", "4", "6",
    "6", "4", "9", "0", "1", "7", "9", "7", "7", "5", "8", "7", "2", "0",
    "7", "0", "9", "6", "3", "3", "0", "2", "8", "6", "4", "1", "6", "6",
    "9", "2", "8", "8", "7", "9", "1", "0", "9", "4", "6", "5", "5", "5",
    "5", "4", "7", "8", "5", "1", "9", "4", "0", "4", "0", "2", "6", "3",
    "0", "6", "5", "7", "4", "8", "8", "6", "7", "1", "5", "0", "5", "8",
    "2", "0", "6", "8", "1", "9", "0", "8", "9", "0", "2", "0", "0", "0",
    "7", "0", "8", "3", "8", "3", "6", "7", "6", "2", "7", "3", "8", "5",
    "4", "8", "4", "5", "8", "1", "7", "7", "1", "1", "5", "3", "1", "7",
    "6", "4", "4", "7", "5", "7", "3", "0", "2", "7", "0", "0", "6", "9",
    "8", "5", "5", "5", "7", "1", "3", "6", "6", "9", "5", "9", "6", "2",
    "2", "8", "4", "2", "9", "1", "4", "8", "1", "9", "8", "6", "0", "8",
    "3", "4", "9", "3", "6", "4", "7", "5", "2", "9", "2", "7", "1", "9",
    "0", "7", "4", "1", "6", "8", "4", "4", "4", "3", "6", "5", "5", "1",
    "0", "7", "0", "4", "3", "4", "2", "7", "1", "1", "5", "5", "9", "6",
    "9", "9", "5", "0", "8", "0", "9", "3", "0", "4", "2", "8", "8", "0",
    "1", "7", "7", "9", "0", "4", "1", "7", "4", "4", "9", "7", "7", "9",
    "2">>

\* The digits of 2^-1075 = 0.d1...dn * 10^-323, half the smallest positive
\* double: a value up to there rounds to zero.
UnderflowDigits ==
  <<"2", "4", "7", "0", "3", "2", "8", "2", "2", "9", "2", "0", "6", "2",
    "3", "2", "7", "2", "0", "8", "8", "2", "8", "4", "3", "9", "6", "4",
    "3", "4", "1", "1", "0", "6", "8", "6", "1", "8", "2", "5", "2", "9",
    "9", "0", "1", "3", "0", "7", "1", "6", "2", "3", "8", "2", "2", "1",
    "2", "7", "9", "2", "8", "4", "1", "2", "5", "0", "3", "3", "7", "7",
    "5", "3", "6", "3", "5", "1", "0", "4", "3", "7", "5", "9", "3", "2",
    "6", "4", "9", "9", "1", "8", "1", "8", "0", "8", "1", "7", "9", "9",
    "6", "1", "8", "9", "8", "9", "8", "2", "8", "2", "3", "4", "7", "7",
    "2", "2", "8", "5", "8", "8", "6", "5", "4", "6", "3", "3", "2", "8",
    "3", "5", "5", "1", "7", "7", "9", "6", "9", "8", "9", "8", "1", "9",
    "9", "3", "8", "7", "3", "9", "8", "0", "0", "5", "3", "9", "0", "9",
    "3", "9", "0", "6", "3", "1", "5", "0", "3", "5", "6", "5", "9", "5",
    "1", "5", "5", "7", "0", "2", "2", "6", "3", "9", "2", "2", "9", "0",
    "8", "5", "8", "3", "9", "2", "4", "4", "9", "1", "0", "5", "1", "8",
    "4", "4", "3", "5", "9", "3", "1", "8", "0", "2", "8", "4", "9", "9",
    "3", "6", "5", "3", "6", "1", "5", "2", "5", "0", "0", "3", "1", "9",
    "3", "7", "0", "4", "5", "7", "6", "7", "8", "2", "4", "9", "2", "1",
    "9", "3", "6", "5", "6", "2", "3", "6", "6", "9", "8", "6", "3", "6",
    "5", "8", "4", "8", "0", "7", "5", "7", "0", "0", "1", "5", "8", "5",
    "7", "6", "9", "2", "6", "9", "9", "0", "3", "7", "0", "6", "3", "1",
    "1", "9", "2", "8", "2", "7", "9", "5", "5", "8", "5", "5", "1", "3",
    "3", "2", "9", "2", "7", "8", "3", "4", "3", "3", "8", "4", "0", "9",
    "3", "5", "1", "9", "7", "8", "0", "1", "5", "5", "3", "1", "2", "4",
    "6", "5", "9", "7", "2", "6", "3", "5", "7", "9", "5", "7", "4", "6",
    "2", "2", "7", "6", "6", "4", "6", "5", "2", "7", "2", "8", "2", "7",
    "2", "2", "0", "0", "5", "6", "3", "7", "4", "0", "0", "6", "4", "8",
    "5", "4", "9", "9", "9", "7", "7", "0", "9", "6", "5", "9", "9", "4",
    "7", "0", "4", "5", "4", "0", "2", "0", "8", "2", "8", "1", "6", "6",
    "2", "2", "6", "2", "3", "7", "8", "5", "7", "3", "9", "3", "4", "5",
    "0", "7", "3", "6", "3", "3", "9", "0", "0", "7", "9", "6", "7", "7",
    "6", "1", "9", "3", "0", "5", "7", "7", "5", "0", "6", "7", "4", "0",
    "1", "7", "6", "3", "2", "4", "6", "7", "3", "6", "0", "0", "9", "6",
    "8", "9", "5", "1", "3", "4", "0", "5", "3", "5", "5", "3", "7", "4",
    "5", "8", "5", "1", "6", "6", "6", "1", "1", "3", "4", "2", "2", "3",
    "7", "6", "6", "6", "7", "8", "6", "0", "4", "1", "6", "2", "1", "5",
    "9", "6", "8", "0", "4", "6", "1", "9", "1", "4", "4", "6", "7", "2",
    "9", "1", "8", "4", "0", "3", "0", "0", "5", "3", "0", "0", "5", "7",
    "5", "3", "0", "8", "4", "9", "0", "4", "8", "7", "6", "5", "3", "9",
    "1", "7", "1", "1", "3", "8", "6", "5", "9", "1", "6", "4", "6", "2",
    "3", "9", "5", "2", "4", "9", "1", "2", "6", "2", "3", "6", "5", "3",
    "8", "8", "1", "8", "7", "9", "6", "3", "6", "2", "3", "9", "3", "7",
    "3", "2", "8", "0", "4", "2", "3", "8", "9", "1", "0", "1", "8", "6",
    "7", "2", "3", "4", "8", "4", "9", "7", "6", "6", "8", "2", "3", "5",
    "0", "8", "9", "8", "6", "3", "3", "8", "8", "5", "8", "7", "9", "2",
    "5", "6", "2", "8", "3", "0", "2", "7", "5", "5", "9", "9", "5", "6",
    "5", "7", "5", "2", "4", "4", "5", "5", "5", "0", "7", "2", "5", "5",
    "1", "8", "9", "3", "1", "3", "6", "9", "0", "8", "3", "6", "2", "5",
    "4", "7", "7", "9", "1", "8", "6", "9", "4", "8", "6", "6", "7", "9",
    "9", "4", "9", "6", "8", "3", "2", "4", "0", "4", "9", "7", "0", "5",
    "8", "2", "1", "0", "2", "8", "5", "1", "3", "1", "8", "5", "4", "5",
    "1", "3", "9", "6", "2", "1", "3", "8", "3", "7", "7", "2", "2", "8",
    "2", "6", "1", "4", "5", "4", "3", "7", "6", "9", "3", "4", "1", "2",
    "5", "3", "2", "0", "9", "8", "5", "9", "1", "3", "2", "7", "6", "6",
    "7", "2", "3", "6", "3", "2", "8", "1", "2", "5">>

\* The double nearest to sg * 0.ds * 10^e, for any digits ds.
FloatOf(sg, ds, e) ==
  LET sig == DropTrailingZeros(DropLeadingZeros(ds))
      x == e - (Len(ds) - Len(DropLeadingZeros(ds)))
  IN IF sig = <<>> THEN FloatZero(sg)
     ELSE IF x > 309 \/ (x = 309 /\ ~StrLess(sig, OverflowDigits))
       THEN FloatInf(sg)
     ELSE IF x < -323 \/ (x = -323 /\ ~StrLess(UnderflowDigits, sig))
       THEN FloatZero(sg)
     ELSE [kind |-> "finite", sign |-> sg, digits |-> sig, exp |-> x]

\* float(str) after the strip and the sign: inf, infinity and nan in any
\* case, or digitpart [. [digitpart]] [exponent] | . digitpart [exponent],
\* with exponent = (e | E) [sign] digitpart; anything else raises ValueError.
ParseUnsigned(sg, r) ==
  IF \/ EqualsIgnoringCase(r, S_inf, S_INF)
     \/ EqualsIgnoringCase(r, S_infinity, S_INFINITY)
    THEN Return(FloatInf(sg))
  ELSE IF EqualsIgnoringCase(r, S_nan, S_NAN) THEN Return(FloatNaN)
  ELSE
    LET ei == FirstIn(r, {"e", "E"})
        mant == IF ei = 0 THEN r ELSE SubSeq(r, 1, ei - 1)
        expo == IF ei = 0 THEN <<>> ELSE SubSeq(r, ei + 1, Len(r))
        signed == expo # <<>> /\ expo[1] \in {"+", "-"}
        esg == IF signed /\ expo[1] = "-" THEN 0 - 1 ELSE 1
        edigits == IF signed THEN Tail(expo) ELSE expo
        di == FirstIn(mant, {"."})
        ipart == IF di = 0 THEN mant ELSE SubSeq(mant, 1, di - 1)
        fpart == IF di = 0 THEN <<>> ELSE SubSeq(mant, di + 1, Len(mant))
        ints == WithoutUnderscores(ipart)
    IN IF /\ ei = 0 \/ IsDigitPart(edigits)
          /\ ipart = <<>> \/ IsDigitPart(ipart)
          /\ fpart = <<>> \/ IsDigitPart(fpart)
          /\ ipart # <<>> \/ fpart # <<>>
         THEN Return(FloatOf(sg, ints \o WithoutUnderscores(fpart),
                Len(ints) + esg * ExponentValue(WithoutUnderscores(edigits))))
         ELSE Raise("ValueError")

\* float(str): surrounding whitespace is stripped, then an optional sign.
ParseSigned(s) ==
  ParseUnsigned(IF s # <<>> /\ s[1] = "-" THEN 0 - 1 ELSE 1,
                IF s # <<>> /\ s[1] \in {"+", "-"} THEN Tail(s) ELSE s)
ParseFloat(cs) == ParseSigned(Strip(TransformDecimalAndSpaceToASCII(cs)))

\* The decimal digits of a natural number.
DigitChar(d) == CHOOSE c \in DOMAIN DigitVal : DigitVal[c] = d
RECURSIVE IntDigits(_)
IntDigits(k) ==
  IF k < 10 THEN <<DigitChar(k)>>
  ELSE Append(IntDigits(k \div 10), DigitChar(k % 10))

\* float(k) of an int (a bool is an int).
FloatOfInt(k) ==
  LET ds == IntDigits(IF k < 0 THEN 0 - k ELSE k)
  IN FloatOf(IF k < 0 THEN 0 - 1 ELSE 1, ds, Len(ds))

\* float(x) of a JSON value: numbers and booleans convert, a string is
\* parsed, None and containers raise TypeError.
PyFloat(v) ==
  CASE v.t \in {"num", "bool"} -> Return(FloatOfInt(v.n))
    [] v.t = "str" -> ParseFloat(v.s)
    [] OTHER -> Raise("TypeError")

\* f > 0 and f >= 0 for a float f; every comparison with nan is False.
IsPositive(f) ==
  f.sign = 1 /\ (f.kind = "inf" \/ (f.kind = "finite" /\ f.digits # <<>>))
IsZero(f) == f.kind = "finite" /\ f.digits = <<>>

\* bool(x): Python truthiness.
Truthy(v) ==
  CASE v.t = "bool" -> v.n = 1
    [] v.t = "num" -> v.n # 0
    [] v.t = "str" -> v.s # <<>>
    [] v.t = "list" -> v.n > 0
    [] OTHER -> FALSE

\* f > 0 for the outcome f of float(x), raising what float(x) raised.
GreaterThanZero(f) ==
  IF f.exc = "none" THEN Return(PyBool(IsPositive(f.val))) ELSE f

\* Mutant of FloatPositive: the boundary at 0 made inclusive.
FloatPositive_Inclusive(v) ==
  LET f == PyFloat(v)
  IN IF f.exc = "none"
       THEN Return(PyBool(IsPositive(f.val) \/ IsZero(f.val)))
       ELSE f

\* float(x) > 0, raising what float(x) raises.
FloatPositive(v) == GreaterThanZero(PyFloat(v))

\* Mutant of GetRewardOrZero: a missing reward defaults to 1.
GetRewardOrOne(rw) == IF rw.reward.t = "absent" THEN Num(1) ELSE rw.reward

\* d.get("reward", 0) of a rewards object.
GetRewardOrZero(rw) == IF rw.reward.t = "absent" THEN Num(0) ELSE rw.reward

\* ---------------------------------------------------------- Status Resolver

\* Rule 3 of _get_passed, for vr = data.get("verifier_result") not None.
\* `"passed" in vr` raises TypeError for a number, is False for an empty
\* list; vr["rewards"].get raises AttributeError unless rewards is an object.
VerifierVerdict(vr) ==
  CASE vr.t = "num" -> Raise("TypeError")
    [] vr.t = "list" -> Return(Null)
    [] OTHER ->
      IF vr.passed.t # "absent" THEN Return(PyBool(Truthy(vr.passed)))
      ELSE IF vr.rewards.t # "absent"
        THEN IF vr.rewards.t = "obj"
               THEN FloatPositive(GetRewardOrZero(vr.rewards))
               ELSE Raise("AttributeError")
      ELSE Return(Null)

\* Mutant of _get_passed: the score rule tried before the passed rule.
get_passed_ScoreFirst(d) ==
  IF d.score.t # "absent" THEN FloatPositive(d.score)
  ELSE IF d.passed.t # "absent" /\ d.passed.t # "null" THEN Return(d.passed)
  ELSE IF d.verifier_result.t # "absent" /\ d.verifier_result.t # "null"
    THEN VerifierVerdict(d.verifier_result)
  ELSE Return(Null)

\* Mutant of _get_passed: the chain ends in False instead of None.
get_passed_DefaultFalse(d) ==
  IF d.passed.t # "absent" /\ d.passed.t # "null" THEN Return(d.passed)
  ELSE IF d.score.t # "absent" THEN FloatPositive(d.score)
  ELSE IF d.verifier_result.t # "absent" /\ d.verifier_result.t # "null"
    THEN VerifierVerdict(d.verifier_result)
  ELSE Return(JFalse)

_get_passed(d) ==
  IF d.passed.t # "absent" /\ d.passed.t # "null" THEN Return(d.passed)
  ELSE IF d.score.t # "absent" THEN FloatPositive(d.score)
  ELSE IF d.verifier_result.t # "absent" /\ d.verifier_result.t # "null"
    THEN VerifierVerdict(d.verifier_result)
  ELSE Return(Null)

\* The verdict a returned value stands for in the reports (print_trial_summary:
\* truthy is PASS, `is False` is FAIL, anything else UNKNOWN).
Passed == "Passed"
Failed == "Failed"
Unknown == "Unknown"
VerdictOf(out) ==
  IF out.exc # "none" THEN "Raised"
  ELSE IF Truthy(out.val) THEN Passed
  ELSE IF out.val = JFalse THEN Failed
  ELSE Unknown

\* ------------------------------------------------------------ payload sets

Nums == {Num(k) : k \in (0 - MaxNum)..MaxNum}

\* Values of a top-level `passed` key.
PassedVals == {Absent, Null, JTrue, JFalse, Num(1), Str(<<"n", "o">>)}
\* Values of a `score` key and of a `reward` key.
NonNumericVals ==
  {Null, EmptyList, Str(<<"a", "b", "c">>), Str(<<>>), Str(<<"1", "-">>),
   Str(<<"(U+001C)", "5">>)}
NumericStrVals ==
  {Str(<<"5">>), Str(<<"-", "1">>), Str(<<"0">>), Str(<<"1", ".", "5">>),
   Str(<<"-", "2", ".", "5">>), Str(<<"0", ".", "0">>), Str(<<" ", "5">>),
   Str(<<"1", "e", "1">>), Str(<<"1", "_", "0">>), Str(<<"i", "n", "f">>),
   Str(<<"n", "a", "n">>), Str(<<"1", "e", "-", "4", "0", "0">>),
   Str(<<"(U+000B)", "5">>), Str(<<"5", "(U+00A0)">>), Str(<<"(U+0665)">>),
   Str(<<"(U+0966)">>), Str(<<"(U+1D7D9)", ".", "(U+FF15)">>)}
ScoreVals == {Absent} \cup Nums \cup NonNumericVals \cup NumericStrVals
\* Values of `verifier_result.passed`.
VrPassedVals == {Absent, Null, JTrue, JFalse, Num(0), Str(<<"y">>), Str(<<>>)}

\* A `rewards` value: [t, reward]; reward is Absent unless t = "obj".
RewardsVals ==
  {[t |-> k, reward |-> Absent] : k \in {"absent", "null", "num"}}
    \cup {[t |-> "obj", reward |-> r] : r \in ScoreVals}
NoRewards == [t |-> "absent", reward |-> Absent]

\* A `verifier_result` value: [t, passed, rewards]; the keys are Absent unless
\* t = "obj".
VerifierVals ==
  {[t |-> k, passed |-> Absent, rewards |-> NoRewards] :
     k \in {"absent", "null", "num", "list"}}
    \cup {[t |-> "obj", passed |-> p, rewards |-> rw] :
            p \in VrPassedVals, rw \in RewardsVals}
NoVerifier == [t |-> "absent", passed |-> Absent, rewards |-> NoRewards]

\* A trial's result.json object, with the keys the pipeline reads.
Payload(p, sc, vr, tn, tr, tok) ==
  [passed |-> p, score |-> sc, verifier_result |-> vr,
   task_name |-> tn, trial_name |-> tr, n_input_tokens |-> tok]
\* The object {}.
EmptyPayload == Payload(Absent, Absent, NoVerifier, Absent, Absent, Absent)
ResolverPayloads ==
  {Payload(p, sc, vr, Absent, Absent, Absent) :
     p \in PassedVals, sc \in ScoreVals, vr \in VerifierVals}

\* ----------------------------------------------------------- Result Locator

S_sep == <<"_", "_">>
S_20 == <<"2", "0">>
S_logs == <<"l", "o", "g", "s">>
S_output == <<"o", "u", "t", "p", "u", "t">>
S_verifier == <<"v", "e", "r", "i", "f", "i", "e", "r">>
S_agent == <<"a", "g", "e", "n", "t">>

\* The parent directory names find_trial_results skips (line 148).
NonTrialContainers == {S_logs, S_output, S_verifier, S_agent}

\* A result.json file's content: [kind, payload]. "unreadable" makes read_text
\* raise OSError, "invalid" makes json.loads raise JSONDecodeError, "object"
\* parses to the payload, "nonobject" is valid JSON that is no object (the
\* array [1]).
Unreadable == [kind |-> "unreadable", payload |-> EmptyPayload]
InvalidJson == [kind |-> "invalid", payload |-> EmptyPayload]
NonObject == [kind |-> "nonobject", payload |-> EmptyPayload]
Obj(p) == [kind |-> "object", payload |-> p]

\* json.loads(result_file.read_text()): the parsed value (isdict tells whether
\* it is an object), or what is raised.
LoadText(body) ==
  CASE body.kind = "unreadable" ->
         [exc |-> "OSError", isdict |-> FALSE, data |-> EmptyPayload]
    [] body.kind = "invalid" ->
         [exc |-> "JSONDecodeError", isdict |-> FALSE, data |-> EmptyPayload]
    [] body.kind = "nonobject" ->
         [exc |-> "none", isdict |-> FALSE, data |-> EmptyPayload]
    [] OTHER -> [exc |-> "none", isdict |-> TRUE, data |-> body.payload]

\* The exceptions the loop's `except (json.JSONDecodeError, OSError)` catches.
CaughtByLocator == {"JSONDecodeError", "OSError"}

\* Mutant of TaskNameOf: the derived name only as the default of a missing
\* key, data.get("task_name", derived).
TaskNameOf_KeyDefault(d, trial_folder) ==
  IF d.task_name.t # "absent" THEN d.task_name
  ELSE Str(RSplitHead(trial_folder, S_sep))

\* data.get("task_name") or trial_folder.rsplit("__", 1)[0]
TaskNameOf(d, trial_folder) ==
  IF Truthy(d.task_name) THEN d.task_name
  ELSE Str(RSplitHead(trial_folder, S_sep))

\* data.get("trial_name") or trial_folder
TrialNameOf(d, trial_folder) ==
  IF Truthy(d.trial_name) THEN d.trial_name ELSE Str(trial_folder)

\* One iteration of the loop of find_trial_results on the result.json at path
\* <<artifact, parent directory>>: [exc, results], exc the exception that
\* leaves the loop ("none" when the iteration ends normally). data.get on a
\* value that is no object raises AttributeError.
\* Lines 160-170, with the outcome `verdict` of _get_passed(data).
AppendResult(res, path, data, verdict) ==
  IF verdict.exc # "none"
    THEN [exc |-> IF verdict.exc \in CaughtByLocator THEN "none" ELSE verdict.exc,
          results |-> res]
    ELSE [exc |-> "none",
          results |-> Append(res,
            [path |-> path,
             task_name |-> TaskNameOf(data, path[2]),
             trial_name |-> TrialNameOf(data, path[2]),
             passed |-> verdict.val,
             data |-> data])]

\* Lines 151-170, with the outcome `loaded` of json.loads(read_text()).
VisitLoaded(res, path, loaded) ==
  IF loaded.exc # "none"
    THEN [exc |-> IF loaded.exc \in CaughtByLocator THEN "none" ELSE loaded.exc,
          results |-> res]
  ELSE IF ~loaded.isdict
    THEN [exc |-> IF "AttributeError" \in CaughtByLocator THEN "none"
                  ELSE "AttributeError",
          results |-> res]
  ELSE AppendResult(res, path, loaded.data, _get_passed(loaded.data))

VisitResult(res, path, body) ==
  IF StartsWith(path[2], S_20) THEN [exc |-> "none", results |-> res]
  ELSE IF path[2] \in NonTrialContainers THEN [exc |-> "none", results |-> res]
  ELSE VisitLoaded(res, path, LoadText(body))

\* The sort keys are the task_name values, which are whatever JSON value the
\* payload holds when it is truthy: numbers (a bool is an int) compare by
\* value, str by code points, lists element by element (a list is modelled by
\* its length, as so many zeros); values of two classes do not compare.
KeyClass(v) == IF v.t \in {"num", "bool"} THEN "number" ELSE v.t
KeyLess(a, b) == IF a.t = "str" THEN StrLess(a.s, b.s) ELSE a.n < b.n

\* sorted(results, key=lambda x: x["task_name"]): a stable sort, so a record
\* goes after the records whose task name is not greater than its own.
InsertByTaskName(sorted, r) ==
  LET after == {i \in 1..Len(sorted) : KeyLess(r.task_name, sorted[i].task_name)}
      k == IF after = {} THEN Len(sorted) + 1
           ELSE CHOOSE i \in after : \A j \in after : i <= j
  IN SubSeq(sorted, 1, k - 1) \o <<r>> \o SubSeq(sorted, k, Len(sorted))

RECURSIVE SortedByTaskName(_)
SortedByTaskName(res) ==
  IF res = <<>> THEN <<>>
  ELSE InsertByTaskName(SortedByTaskName(SubSeq(res, 1, Len(res) - 1)),
                        res[Len(res)])

\* Line 172 as a call: the first comparison of two keys of different classes
\* raises TypeError, and a list that holds two such keys always meets one.
SortResults(res) ==
  IF \A i, j \in 1..Len(res) :
       KeyClass(res[i].task_name) = KeyClass(res[j].task_name)
    THEN [exc |-> "none", results |-> SortedByTaskName(res)]
    ELSE [exc |-> "TypeError", results |-> <<>>]

\* ------------------------------------------------- per-model summary of main

S_unknown == <<"u", "n", "k", "n", "o", "w", "n">>
S_results_prefix ==
  <<"t", "e", "r", "m", "i", "n", "a", "l", "-", "b", "e", "n", "c", "h",
    "-", "r", "e", "s", "u", "l", "t", "s", "-">>

\* s.replace(p, ""): every occurrence of p removed, from the left.
RECURSIVE RemoveAll(_, _)
RemoveAll(s, p) ==
  LET i == Find(s, p)
  IN IF i = 0 THEN s
     ELSE SubSeq(s, 1, i - 1) \o RemoveAll(SubSeq(s, i + Len(p), Len(s)), p)

\* Lines 332-337: the model of a result, from the first part of its path that
\* starts with "terminal-bench-results-", "unknown" without one.
RECURSIVE ModelOfParts(_)
ModelOfParts(parts) ==
  IF parts = <<>> THEN S_unknown
  ELSE IF StartsWith(parts[1], S_results_prefix)
    THEN RemoveAll(parts[1], S_results_prefix)
  ELSE ModelOfParts(Tail(parts))

\* Lines 329-338: by_model, as model -> the list of its results in the order
\* of `results`.
RECURSIVE GroupByModel(_)
GroupByModel(rs) ==
  IF rs = <<>> THEN <<>>
  ELSE LET r == rs[Len(rs)]
           before == GroupByModel(SubSeq(rs, 1, Len(rs) - 1))
           model == ModelOfParts(r.path)
       IN IF model \in DOMAIN before
            THEN [before EXCEPT ![model] = Append(@, r)]
            ELSE before @@ (model :> <<r>>)

\* Mutant of PassedCount: every trial that did not fail is counted.
PassedCount_NotFailed(trials) ==
  Cardinality({i \in 1..Len(trials) : trials[i].passed # JFalse})

\* Line 342: sum(1 for t in trials if t["passed"])
PassedCount(trials) ==
  Cardinality({i \in 1..Len(trials) : Truthy(trials[i].passed)})

\* str.lower() of an ASCII str.
LowerChar ==
  [c \in DOMAIN CodePoints |->
     IF CodePoints[c] \in 65..90 THEN Ascii[CodePoints[c] + 1] ELSE c]
Lower(cs) == [i \in 1..Len(cs) |-> LowerChar[cs[i]]]

\* str(r["path"]): the run directory main hands to find_trial_results (its
\* output directory and run id), the artifact, the trial directory and the
\* file name.
S_run_dir == <<".", "r", "u", "n", "_", "l", "o", "g", "s", "/", "7", "7">>
S_result_json == <<"/", "r", "e", "s", "u", "l", "t", ".", "j", "s", "o", "n">>
PathStr(path) ==
  S_run_dir \o <<"/">> \o path[1] \o <<"/">> \o path[2] \o S_result_json

\* The arguments of main that select results: --task and --model are a str
\* or None, --failures-only a flag. (--verbose adds detail lines for passed
\* trials too, none of which is modelled; it changes no outcome below.)
NoArgs == [task |-> Null, model |-> Null, failures_only |-> FALSE]

\* Lines 310-322: the three filters, in this order. r["task_name"].lower()
\* raises AttributeError for a task name that is no str.
FilterResults(res, a) ==
  LET byTask ==
        IF Truthy(a.task)
          THEN SelectSeq(res, LAMBDA r :
                 Find(Lower(r.task_name.s), Lower(a.task.s)) # 0)
          ELSE res
      key == [i \in 1..Len(a.model.s) |->
                IF a.model.s[i] = "/" THEN "-" ELSE LowerChar[a.model.s[i]]]
      byModel ==
        IF Truthy(a.model)
          THEN SelectSeq(byTask, LAMBDA r : Find(Lower(PathStr(r.path)), key) # 0)
          ELSE byTask
  IN IF Truthy(a.task) /\ \E i \in 1..Len(res) : res[i].task_name.t # "str"
       THEN [exc |-> "AttributeError", results |-> <<>>]
       ELSE [exc |-> "none",
             results |-> IF a.failures_only
                           THEN SelectSeq(byModel, LAMBDA r : r.passed = JFalse)
                           ELSE byModel]

\* A printed line: the "<model>: <passed>/<total> passed" line of a group
\* (line 344), the status line of a trial (line 206), the verifier line of a
\* trial (line 236).
ModelLine(m, trials) ==
  [kind |-> "model", model |-> m, passed |-> PassedCount(trials),
   total |-> Len(trials), status |-> "", task_name |-> Null]
TrialLine(m, kind, trial) ==
  [kind |-> kind, model |-> m, passed |-> 0, total |-> 0,
   status |-> IF kind = "trial" THEN VerdictOf(Return(trial.passed)) ELSE "",
   task_name |-> trial.task_name]

\* bool(vr) for vr = data.get("verifier_result", {}): an object is truthy
\* when it has a key, the number (5) is, None and [] are not.
VrTruthy(vr) ==
  \/ vr.t = "num"
  \/ vr.t = "obj" /\ (vr.passed.t # "absent" \/ vr.rewards.t # "absent")

\* print_trial_summary of a trial of model m: [exc, lines]. The status line
\* comes first; for a trial that did not pass, a truthy verifier_result is
\* asked for its rewards (vr.get), which raises AttributeError unless it is
\* an object. The lines about agent logs and exception_info are left out.
print_trial_summary(m, trial) ==
  LET vr == trial.data.verifier_result
  IN IF VrTruthy(vr) /\ ~Truthy(trial.passed)
       THEN IF vr.t = "obj"
              THEN [exc |-> "none",
                    lines |-> <<TrialLine(m, "trial", trial),
                                TrialLine(m, "verifier", trial)>>]
              ELSE [exc |-> "AttributeError",
                    lines |-> <<TrialLine(m, "trial", trial)>>]
       ELSE [exc |-> "none", lines |-> <<TrialLine(m, "trial", trial)>>]

\* Lines 345-347: the trials of one model, up to the first that raises.
RECURSIVE PrintTrials(_, _, _)
PrintTrials(m, trials, a) ==
  IF trials = <<>> THEN [exc |-> "none", lines |-> <<>>]
  ELSE LET first == IF ~a.failures_only \/ ~Truthy(trials[1].passed)
                      THEN print_trial_summary(m, trials[1])
                      ELSE [exc |-> "none", lines |-> <<>>]
           rest == PrintTrials(m, Tail(trials), a)
       IN IF first.exc # "none" THEN first
          ELSE [exc |-> rest.exc, lines |-> first.lines \o rest.lines]

\* Lines 341-347: for model, trials in sorted(by_model.items()), over the
\* models `left` to print, least name first, up to the first raise.
RECURSIVE PrintModels(_, _, _)
PrintModels(groups, left, a) ==
  IF left = {} THEN [exc |-> "none", lines |-> <<>>]
  ELSE LET m == CHOOSE x \in left : \A y \in left \ {x} : StrLess(x, y)
           own == PrintTrials(m, groups[m], a)
           rest == PrintModels(groups, left \ {m}, a)
       IN IF own.exc # "none"
            THEN [exc |-> own.exc, lines |-> <<ModelLine(m, groups[m])>> \o own.lines]
            ELSE [exc |-> rest.exc,
                  lines |-> <<ModelLine(m, groups[m])>> \o own.lines \o rest.lines]

\* main from line 310 on, for the list find_trial_results returned:
\* [exc, pc, by_model, printed], pc "nomatch" for "No matching results found".
MainOutcome(res, a) ==
  LET f == FilterResults(res, a)
      groups == GroupByModel(f.results)
      p == PrintModels(groups, DOMAIN groups, a)
  IN IF f.exc # "none"
       THEN [exc |-> f.exc, pc |-> "main-raised", by_model |-> <<>>,
             printed |-> <<>>]
     ELSE IF f.results = <<>>
       THEN [exc |-> "none", pc |-> "nomatch", by_model |-> <<>>,
             printed |-> <<>>]
     ELSE [exc |-> p.exc,
           pc |-> IF p.exc = "none" THEN "summarised" ELSE "main-raised",
           by_model |-> groups, printed |-> p.lines]

\* The counts of the model lines printed so far, by model.
SummaryOf(lines) ==
  LET heads == {i \in 1..Len(lines) : lines[i].kind = "model"}
  IN [m \in {lines[i].model : i \in heads} |->
        LET i == CHOOSE j \in heads : lines[j].model = m
        IN [passed |-> lines[i].passed, total |-> lines[i].total]]

\* ------------------------------------------------------- artifact tree inputs

\* A tree holds at most MaxFiles result.json files.
MaxFiles == 2

D_feal ==
  <<"f", "e", "a", "l", "-", "d", "i", "f", "f", "e", "r", "e", "n", "t",
    "i", "a", "l", "-", "c", "r", "y", "p", "t", "a", "n", "a", "l", "y",
    "s", "i", "s", "_", "_", "a", "1", "b", "2", "c", "3">>
D_two ==
  <<"b", "u", "i", "l", "d", "_", "_", "k", "e", "r", "n", "e", "l", "_",
    "_", "x", "9">>
D_plain == <<"p", "l", "a", "i", "n">>
D_2048 == <<"2", "0", "4", "8", "-", "g", "a", "m", "e", "_", "_", "k", "3">>
D_job ==
  <<"2", "0", "2", "6", "-", "0", "1", "-", "0", "5", "_", "_", "1", "0",
    "-", "0", "0", "-", "0", "0">>
A_opus ==
  <<"t", "e", "r", "m", "i", "n", "a", "l", "-", "b", "e", "n", "c", "h",
    "-", "r", "e", "s", "u", "l", "t", "s", "-", "a", "n", "t", "h", "r",
    "o", "p", "i", "c", "-", "c", "l", "a", "u", "d", "e", "-", "o", "p",
    "u", "s", "-", "4", "-", "5", "-", "7", "7">>
A_gpt ==
  <<"t", "e", "r", "m", "i", "n", "a", "l", "-", "b", "e", "n", "c", "h",
    "-", "r", "e", "s", "u", "l", "t", "s", "-", "o", "p", "e", "n", "a",
    "i", "-", "g", "p", "t", "-", "5", ".", "2", "-", "7", "7">>
A_local == <<"l", "o", "c", "a", "l", "-", "r", "u", "n">>
T_zed == <<"z", "e", "d">>
T_try == <<"t", "r", "y", "-", "1">>

\* Paths <<artifact, parent directory>> of the result.json files of a tree.
TreePaths ==
  {<<A_opus, D_feal>>, <<A_gpt, D_feal>>, <<A_opus, D_two>>, <<A_local, D_plain>>,
   <<A_gpt, D_2048>>, <<A_opus, D_job>>, <<A_opus, S_logs>>}

TreeBodies ==
  {InvalidJson, Unreadable, NonObject,
   Obj(Payload(JTrue, Absent, NoVerifier, Absent, Absent, Absent)),
   Obj(Payload(Absent, Absent, NoVerifier, Absent, Absent, Num(3))),
   Obj(Payload(Absent, Str(<<"a", "b", "c">>), NoVerifier, Absent, Absent, Absent)),
   Obj(Payload(JFalse, Absent,
               [t |-> "obj", passed |-> JFalse, rewards |-> NoRewards],
               Str(T_zed), Str(T_try), Absent)),
   Obj(Payload(Absent, Absent,
               [t |-> "obj", passed |-> Absent,
                rewards |-> [t |-> "obj", reward |-> Null]],
               Str(<<>>), Null, Absent)),
   Obj(Payload(JFalse, Absent,
               [t |-> "num", passed |-> Absent, rewards |-> NoRewards],
               Num(3), Absent, Absent)),
   Obj(Payload(JTrue, Absent, NoVerifier, Num(2), Absent, Absent)),
   Obj(Payload(JTrue, Absent, NoVerifier, Str(<<>>), Str(<<>>), Absent))}

\* The arguments main is run with.
S_task_arg == <<"F", "E", "A", "L">>
S_model_arg ==
  <<"A", "n", "t", "h", "r", "o", "p", "i", "c", "/", "C", "l", "a", "u", "d", "e">>
MainArgs ==
  {NoArgs,
   [NoArgs EXCEPT !.task = Str(S_task_arg)],
   [NoArgs EXCEPT !.model = Str(S_model_arg)],
   [NoArgs EXCEPT !.failures_only = TRUE],
   [task |-> Str(S_task_arg), model |-> Str(S_model_arg), failures_only |-> TRUE]}

\* The trees: a body for each path of a set of at most MaxFiles paths.
TreePathSets == {P \in SUBSET TreePaths : Cardinality(P) <= MaxFiles}

\* ---------------------------------------------------------------- Row Builder

\* A trial folder with no result.json: read_text raises OSError.
Missing == [kind |-> "missing", payload |-> EmptyPayload]

\* load_json(path): the parsed value, None (Null) on OSError or
\* JSONDecodeError. The result is [isNone, isdict, data].
load_json(body) ==
  CASE body.kind = "object" ->
         [isNone |-> FALSE, isdict |-> TRUE, data |-> body.payload]
    [] body.kind = "nonobject" ->
         [isNone |-> FALSE, isdict |-> FALSE, data |-> EmptyPayload]
    [] OTHER -> [isNone |-> TRUE, isdict |-> FALSE, data |-> EmptyPayload]

\* Mutant of IsFalsyResult: only None is skipped (`if trial_result is None`).
IsFalsyResult_NoneOnly(loaded) == loaded.isNone

\* `not trial_result`: None, or an object with no key (the array [1] is
\* truthy).
IsFalsyResult(loaded) ==
  loaded.isNone \/ (loaded.isdict /\ loaded.data = EmptyPayload)

\* The job's result.json: [kind, hasStats, hasEvals, evals]. kind is as for a
\* trial's file; evals lists the values of stats.evals in the dict's order, an
\* evaluation group being [hasMetrics, metrics] and a metrics entry the value
\* of its "mean" key, any JSON value (Absent without the key).
JobResult(k, st, ev, groups) ==
  [kind |-> k, hasStats |-> st, hasEvals |-> ev, evals |-> groups]
NoJobResult == JobResult("missing", FALSE, FALSE, <<>>)
NonObjectJobResult == JobResult("nonobject", FALSE, FALSE, <<>>)
Group(ms) == [hasMetrics |-> TRUE, metrics |-> ms]
NoMetricsGroup == [hasMetrics |-> FALSE, metrics |-> <<>>]

\* Lines 58-64: stats.get("evals", {}).values() for job_result =
\* `load_json(...) or {}`. A file that loads to a truthy value that is no
\* object (the array [1]) stays, and job_result.get raises AttributeError.
EvalsOf(jr) ==
  IF jr.kind = "nonobject" THEN Raise("AttributeError")
  ELSE IF jr.kind = "object" /\ jr.hasStats /\ jr.hasEvals THEN Return(jr.evals)
  ELSE Return(<<>>)

\* Lines 64-68: metrics[0]["mean"] of every group whose metrics is a non-empty
\* list with a "mean" key in its first entry.
RECURSIVE MeanScores(_)
MeanScores(groups) ==
  IF groups = <<>> THEN <<>>
  ELSE LET g == groups[Len(groups)]
           before == MeanScores(SubSeq(groups, 1, Len(groups) - 1))
       IN IF g.hasMetrics /\ g.metrics # <<>> /\ g.metrics[1].t # "absent"
            THEN Append(before, g.metrics[1])
            ELSE before

\* sum(mean_scores): numbers add up (a bool is an int); 0 + x raises
\* TypeError for None, a str or a list.
RECURSIVE SumOfNumbers(_)
SumOfNumbers(ms) == IF ms = <<>> THEN 0 ELSE ms[1].n + SumOfNumbers(Tail(ms))
SumOf(ms) ==
  IF \A i \in 1..Len(ms) : ms[i].t \in {"num", "bool"}
    THEN Return(SumOfNumbers(ms))
    ELSE Raise("TypeError")

\* The float p / q for q > 0, as the fraction in lowest terms.
RECURSIVE Gcd(_, _)
Gcd(a, b) == IF b = 0 THEN a ELSE Gcd(b, a % b)
Quotient(p, q) ==
  LET g == Gcd(IF p < 0 THEN 0 - p ELSE p, q)
  IN [t |-> "float", num |-> p \div g, den |-> q \div g]

\* Mutant of Accuracy: the sum, not the list, decides whether there is data.
Accuracy_FalsyZero(jr) ==
  LET evals == EvalsOf(jr)
      mean_scores == MeanScores(evals.val)
      total == SumOf(mean_scores)
  IN IF evals.exc # "none" THEN evals
     ELSE IF total.exc # "none" THEN total
     ELSE IF total.val # 0 THEN Return(Quotient(total.val, Len(mean_scores)))
     ELSE Return(Null)

\* Lines 63-70: sum(mean_scores) / len(mean_scores) if mean_scores else
\* None, or what the lines raise.
Accuracy(jr) ==
  LET evals == EvalsOf(jr)
      mean_scores == MeanScores(evals.val)
      total == SumOf(mean_scores)
  IN IF evals.exc # "none" THEN evals
     ELSE IF mean_scores = <<>> THEN Return(Null)
     ELSE IF total.exc # "none" THEN total
     ELSE Return(Quotient(total.val, Len(mean_scores)))

\* Lines 57-109: the job's accuracy for the base row, or what the lines
\* raise. job_config is the kind of the job's config.json: like job_result,
\* a truthy value that is no object stays, and job_config.get (line 83)
\* raises AttributeError.
BaseRowAccuracy(jr, jc) ==
  LET acc == Accuracy(jr)
  IN IF acc.exc # "none" THEN acc
     ELSE IF jc = "nonobject" THEN Raise("AttributeError")
     ELSE acc

\* dict.get(key): None for a missing key.
DictGet(v) == IF v.t = "absent" THEN Null ELSE v

\* The row's "passed": trial_result.get("passed").
RowPassed(d) == DictGet(d.passed)

\* The row of one trial (lines 123-135), with the fields the counts and the
\* claims read.
RowOf(name, d, acc) ==
  [task_id |-> name,
   accuracy |-> acc,
   n_resolved |-> Null,
   n_unresolved |-> Null,
   passed |-> RowPassed(d),
   score |-> DictGet(d.score),
   n_input_tokens |-> DictGet(d.n_input_tokens)]

\* trial_result.get(...) of line 130 raises AttributeError when the loaded
\* value is truthy and no object.
RowRaises(entry) ==
  LET trial_result == load_json(entry.body)
  IN entry.isdir /\ ~IsFalsyResult(trial_result) /\ ~trial_result.isdict

\* One iteration of `for trial_folder in sorted(job_folder.iterdir())`.
RowsAfter(rs, name, entry, acc) ==
  LET trial_result == load_json(entry.body)
  IN IF ~entry.isdir THEN rs
     ELSE IF IsFalsyResult(trial_result) THEN rs
     ELSE IF RowRaises(entry) THEN rs
     ELSE Append(rs, RowOf(name, trial_result.data, acc))

\* sum(1 for row in rows if row["passed"] is v)
CountPassedIs(rs, v) == Cardinality({i \in 1..Len(rs) : rs[i].passed = v})

\* Lines 138-142: the counts, written into every row.
BackFilled(rs) ==
  [i \in 1..Len(rs) |->
     [rs[i] EXCEPT !.n_resolved = Num(CountPassedIs(rs, JTrue)),
                   !.n_unresolved = Num(CountPassedIs(rs, JFalse))]]

\* ---------------------------------------------------------- job folder inputs

F_result == <<"r", "e", "s", "u", "l", "t", ".", "j", "s", "o", "n">>

\* The names of a job folder's entries.
FolderNames == {D_2048, D_feal, D_two, F_result}

\* A result.json of a trial folder.
RowBodies ==
  {Missing, Unreadable, InvalidJson, NonObject, Obj(EmptyPayload),
   Obj(Payload(JTrue, Absent, NoVerifier, Absent, Absent, Absent)),
   Obj(Payload(JFalse, Absent, NoVerifier, Absent, Absent, Absent)),
   Obj(Payload(Absent, Num(0), NoVerifier, Absent, Absent, Absent)),
   Obj(Payload(Absent, Num(5), NoVerifier, Absent, Absent, Absent)),
   Obj(Payload(Absent, Absent, NoVerifier, Absent, Absent, Num(3)))}

\* An entry of the job folder: a plain file, or a directory and the content of
\* the result.json inside it.
PlainFile == [isdir |-> FALSE, body |-> Missing]
TrialFolders == {[isdir |-> TRUE, body |-> b] : b \in RowBodies}

\* The job folders: result.json is the job's own result file, any other name
\* is a file or a trial folder.
JobFolders ==
  UNION {{f \in [N -> {PlainFile} \cup TrialFolders] :
            F_result \in N => f[F_result] = PlainFile} :
         N \in SUBSET FolderNames}

\* A job's stats.evals holds at most MaxGroups evaluation groups.
MaxGroups == 2

\* The metrics lists of a group: empty, a first entry without a mean, a first
\* entry with a mean, and lists with a second entry.
MetricsLists ==
  {<<>>, <<Absent>>, <<Num(0)>>, <<Num(1)>>, <<Num(4)>>, <<Num(0), Num(4)>>,
   <<Absent, Num(1)>>, <<JTrue>>, <<Null>>, <<Str(<<"a", "b", "c">>)>>}
Groups == {NoMetricsGroup} \cup {Group(ms) : ms \in MetricsLists}
EvalLists == UNION {[1..n -> Groups] : n \in 0..MaxGroups}

\* The job result files: none, invalid JSON, the array [1], objects without
\* stats or without stats.evals, and objects with evaluation groups.
JobResults ==
  {NoJobResult, JobResult("invalid", FALSE, FALSE, <<>>), NonObjectJobResult,
   JobResult("object", FALSE, FALSE, <<>>), JobResult("object", TRUE, FALSE, <<>>)}
    \cup {JobResult("object", TRUE, TRUE, ev) : ev \in EvalLists}

\* The job folders build_rows is run on: every folder with a few job results,
\* and a few folders with every job result.
FewJobResults ==
  {NoJobResult, JobResult("invalid", FALSE, FALSE, <<>>), NonObjectJobResult,
   JobResult("object", TRUE, TRUE, <<Group(<<Num(0)>>)>>)}
FewJobFolders ==
  {f \in JobFolders :
     /\ DOMAIN f \subseteq {D_feal, F_result}
     /\ D_feal \in DOMAIN f =>
          f[D_feal] = [isdir |-> TRUE,
                       body |-> Obj(Payload(JTrue, Absent, NoVerifier, Absent,
                                            Absent, Absent))]}
\* The job's config.json: no file, invalid JSON, an object, the array [1].
JobConfigs == {"missing", "invalid", "object", "nonobject"}
JobInputs ==
  {inp \in (JobFolders \X FewJobResults \X {"object"})
            \cup (FewJobFolders \X JobResults \X JobConfigs) :
     (F_result \in DOMAIN inp[1]) <=> (inp[2].kind # "missing")}

\* The least name of a set of names, in the order sorted() gives paths.
LeastName(names) == CHOOSE n \in names : \A m \in names \ {n} : StrLess(n, m)

\* --------------------------------------------------------- Submission Assembler

S_prefix ==
  <<"t", "e", "r", "m", "i", "n", "a", "l", "-", "b", "e", "n", "c", "h",
    "-", "r", "e", "s", "u", "l", "t", "s", "-">>
P_sonnet ==
  <<"a", "n", "t", "h", "r", "o", "p", "i", "c", "-", "c", "l", "a", "u",
    "d", "e", "-", "s", "o", "n", "n", "e", "t", "-", "4", "-", "5">>
M_sonnet ==
  <<"a", "n", "t", "h", "r", "o", "p", "i", "c", "/", "c", "l", "a", "u",
    "d", "e", "-", "s", "o", "n", "n", "e", "t", "-", "4", "-", "5">>
P_opus ==
  <<"a", "n", "t", "h", "r", "o", "p", "i", "c", "-", "c", "l", "a", "u",
    "d", "e", "-", "o", "p", "u", "s", "-", "4", "-", "5">>
M_opus ==
  <<"a", "n", "t", "h", "r", "o", "p", "i", "c", "/", "c", "l", "a", "u",
    "d", "e", "-", "o", "p", "u", "s", "-", "4", "-", "5">>
P_gpt52 ==
  <<"o", "p", "e", "n", "a", "i", "-", "g", "p", "t", "-", "5", ".", "2">>
M_gpt52 ==
  <<"o", "p", "e", "n", "a", "i", "/", "g", "p", "t", "-", "5", ".", "2">>
P_codex ==
  <<"o", "p", "e", "n", "a", "i", "-", "g", "p", "t", "-", "5", "-", "c",
    "o", "d", "e", "x">>
M_codex ==
  <<"o", "p", "e", "n", "a", "i", "/", "g", "p", "t", "-", "5", "-", "c",
    "o", "d", "e", "x">>
N_sonnet ==
  <<"c", "l", "a", "u", "d", "e", "-", "s", "o", "n", "n", "e", "t", "-",
    "4", "-", "5">>
N_opus ==
  <<"c", "l", "a", "u", "d", "e", "-", "o", "p", "u", "s", "-", "4", "-",
    "5">>
N_gpt52 == <<"g", "p", "t", "-", "5", ".", "2">>
N_codex == <<"g", "p", "t", "-", "5", "-", "c", "o", "d", "e", "x">>
V_anthropic == <<"a", "n", "t", "h", "r", "o", "p", "i", "c">>
V_openai == <<"o", "p", "e", "n", "a", "i">>

\* model_patterns of parse_model_from_artifact_name, in the dict's order.
model_patterns ==
  <<<<P_sonnet, M_sonnet>>, <<P_opus, M_opus>>, <<P_gpt52, M_gpt52>>,
    <<P_codex, M_codex>>>>

\* MODEL_METADATA: model -> <<model_name, model_provider>>.
MODEL_METADATA ==
  <<<<M_sonnet, N_sonnet, V_anthropic>>, <<M_opus, N_opus, V_anthropic>>,
    <<M_gpt52, N_gpt52, V_openai>>, <<M_codex, N_codex, V_openai>>>>

\* parse_model_from_artifact_name(name): the model of the first pattern the
\* name's remainder starts with, None (Null) without the prefix or a match.
parse_model_from_artifact_name(name) ==
  IF ~StartsWith(name, S_prefix) THEN Null
  ELSE LET remainder == SubSeq(name, Len(S_prefix) + 1, Len(name))
           hits == {i \in 1..Len(model_patterns) :
                      StartsWith(remainder, model_patterns[i][1])}
       IN IF hits = {} THEN Null
          ELSE Str(model_patterns[CHOOSE i \in hits : \A j \in hits : i <= j][2])

\* model.replace("/", "-")
ReplaceSlash(m) == [i \in 1..Len(m) |-> IF m[i] = "/" THEN "-" ELSE m[i]]

\* model.split("/")[0] and model.split("/")[-1]
SplitFirst(m) ==
  LET i == Find(m, <<"/">>) IN IF i = 0 THEN m ELSE SubSeq(m, 1, i - 1)
SplitLast(m) ==
  LET i == RFind(m, <<"/">>) IN SubSeq(m, i + 1, Len(m))

\* create_metadata_yaml(model): the file's model_name and model_provider lines
\* (the two display names are set from the same table entry or the same split).
create_metadata_yaml(m) ==
  LET known == {i \in 1..Len(MODEL_METADATA) : MODEL_METADATA[i][1] = m}
  IN IF known # {}
       THEN LET e == MODEL_METADATA[CHOOSE i \in known : TRUE]
            IN [exists |-> TRUE, model_name |-> e[2], model_provider |-> e[3]]
       ELSE [exists |-> TRUE, model_name |-> SplitLast(m),
             model_provider |-> SplitFirst(m)]

\* No metadata.yaml in a submission folder.
NoFile == [exists |-> FALSE, model_name |-> <<>>, model_provider |-> <<>>]

\* A job folder's config.json: [kind, model_name, agent_kwargs]; kind is
\* "missing" (no file), "invalid" (not JSON), "nonobject" (valid JSON that is
\* no object, the array [1]) or "object"; model_name is any JSON value;
\* agent_kwargs is [t, model_name] with t "absent", "null" or "obj".
NoKwargs == [t |-> "absent", model_name |-> Absent]
NoConfig == [kind |-> "missing", model_name |-> Absent, agent_kwargs |-> NoKwargs]
BadConfig == [kind |-> "invalid", model_name |-> Absent, agent_kwargs |-> NoKwargs]
NonObjectConfig ==
  [kind |-> "nonobject", model_name |-> Absent, agent_kwargs |-> NoKwargs]
Config(mn, kw) == [kind |-> "object", model_name |-> mn, agent_kwargs |-> kw]
Kwargs(mn) == [t |-> "obj", model_name |-> mn]
NullKwargs == [t |-> "null", model_name |-> Absent]

\* config.get("agent_kwargs", {}).get("model_name"): AttributeError when
\* agent_kwargs is there and is no object (null).
KwargsModel(kw) ==
  CASE kw.t = "absent" -> Return(Null)
    [] kw.t = "obj" -> Return(DictGet(kw.model_name))
    [] OTHER -> Raise("AttributeError")

\* Lines 266-269: config.get("model_name") or the agent_kwargs model_name,
\* for the config.json there is. A file that is not JSON leaves model None
\* (the except clause of line 270); config.get raises AttributeError on a
\* value that is no object.
ConfigModel(c) ==
  CASE c.kind \in {"missing", "invalid"} -> Return(Null)
    [] c.kind = "nonobject" -> Raise("AttributeError")
    [] OTHER -> IF Truthy(DictGet(c.model_name)) THEN Return(c.model_name)
                ELSE KwargsModel(c.agent_kwargs)

\* Mutant of DetermineModel: the artifact name is tried before the config.
DetermineModel_ArtifactFirst(c, item_name) ==
  LET parsed == parse_model_from_artifact_name(item_name)
  IN IF Truthy(parsed) THEN Return(parsed) ELSE ConfigModel(c)

\* Lines 262-274: the job's model, from its config and else from the artifact
\* container's name; Return(v) with v falsy when none is found. Only
\* JSONDecodeError and KeyError are caught around the config.
DetermineModel(c, item_name) ==
  LET fromConfig == ConfigModel(c)
  IN IF fromConfig.exc # "none" THEN fromConfig
     ELSE IF Truthy(fromConfig.val) THEN fromConfig
     ELSE Return(parse_model_from_artifact_name(item_name))

\* Line 295: run_date or job_folder.name if run_date else job_folder.name
JobNameOf(rd, folder_name) == IF Truthy(rd) THEN rd.s ELSE folder_name

\* Mutant of MetadataAfter: metadata.yaml is written whether or not it exists.
MetadataAlwaysWritten(meta, slug, m) ==
  [meta EXCEPT ![slug] = create_metadata_yaml(m)]

\* Lines 290-292: metadata.yaml is written if it does not exist.
MetadataAfter(meta, slug, m) ==
  IF ~meta[slug].exists THEN [meta EXCEPT ![slug] = create_metadata_yaml(m)]
  ELSE meta

\* Mutant of JobsAfter: the model-slug folder is emptied of job copies before
\* the copy.
JobsAfter_ClearsSlug(jobs, slug, job_name, src) ==
  {j \in jobs : j.slug # slug}
    \cup {[slug |-> slug, name |-> job_name, src |-> src]}

\* Lines 296-301: the job folder copied to submission_dir / job_name, a
\* directory already there removed first.
JobsAfter(jobs, slug, job_name, src) ==
  {j \in jobs : ~(j.slug = slug /\ j.name = job_name)}
    \cup {[slug |-> slug, name |-> job_name, src |-> src]}

\* --------------------------------------------------------- submission inputs

\* The artifacts directory of an invocation holds at most MaxJobs job folders.
MaxJobs == 2

A_other ==
  <<"t", "e", "r", "m", "i", "n", "a", "l", "-", "b", "e", "n", "c", "h",
    "-", "r", "e", "s", "u", "l", "t", "s", "-", "l", "l", "a", "m", "a",
    "-", "7", "7">>
J_first ==
  <<"2", "0", "2", "6", "-", "0", "1", "-", "0", "5", "_", "_", "1", "0",
    "-", "0", "0", "-", "0", "0">>
J_second ==
  <<"2", "0", "2", "6", "-", "0", "1", "-", "0", "6", "_", "_", "0", "9",
    "-", "3", "0", "-", "0", "0">>
R_day1 == <<"2", "0", "2", "6", "-", "0", "1", "-", "0", "7">>
R_day2 == <<"2", "0", "2", "6", "-", "0", "1", "-", "0", "8">>
M_dashed ==
  <<"a", "n", "t", "h", "r", "o", "p", "i", "c", "-", "c", "l", "a", "u",
    "d", "e", "-", "o", "p", "u", "s", "-", "4", "-", "5">>
G_hand == <<"h", "a", "n", "d", "-", "e", "d", "i", "t", "e", "d">>

A_prior ==
  <<"t", "e", "r", "m", "i", "n", "a", "l", "-", "b", "e", "n", "c", "h",
    "-", "r", "e", "s", "u", "l", "t", "s", "-", "a", "n", "t", "h", "r",
    "o", "p", "i", "c", "-", "c", "l", "a", "u", "d", "e", "-", "o", "p",
    "u", "s", "-", "4", "-", "5", "-", "7", "6">>
J_prior ==
  <<"2", "0", "2", "6", "-", "0", "1", "-", "0", "4", "_", "_", "1", "0",
    "-", "0", "0", "-", "0", "0">>

\* The job folders <<artifact container, job folder name>> an artifacts
\* directory can hold.
JobPaths == {<<A_opus, J_first>>, <<A_opus, J_second>>, <<A_other, J_first>>}

\* The run_date arguments: None, or the date main passes.
RunDates == {Null, Str(R_day1), Str(R_day2)}

\* The config.json of a job folder.
Configs ==
  {BadConfig,
   Config(Absent, NoKwargs),
   Config(Str(M_dashed), Kwargs(Str(M_gpt52))),
   Config(Str(<<>>), Kwargs(Str(M_gpt52))),
   Config(Null, Kwargs(Str(<<>>))),
   Config(Absent, NullKwargs),
   Config(Num(5), NoKwargs),
   Config(Absent, Kwargs(Num(7))),
   NonObjectConfig}

\* A job folder entry: [isdir, hasResult, config]: a plain file, a directory
\* with neither config.json nor result.json, one with only result.json, and
\* the directories with a config.json.
JobEntries ==
  {[isdir |-> FALSE, hasResult |-> FALSE, config |-> NoConfig],
   [isdir |-> TRUE, hasResult |-> FALSE, config |-> NoConfig],
   [isdir |-> TRUE, hasResult |-> TRUE, config |-> NoConfig]}
    \cup {[isdir |-> TRUE, hasResult |-> TRUE, config |-> c] : c \in Configs}

\* The model-slug folders a run can create.
Slugs == {ReplaceSlash(M_opus), ReplaceSlash(M_gpt52)}

\* A metadata.yaml written by hand.
HandMetadata == [exists |-> TRUE, model_name |-> G_hand, model_provider |-> G_hand]

\* A job subdirectory an earlier invocation left in a model-slug folder.
PriorCopy(slug, name) == [slug |-> slug, name |-> name, src |-> <<A_prior, J_prior>>]

\* What an output tree holds for a model before the invocation: nothing, a
\* hand-written metadata.yaml, or what earlier invocations wrote for the model
\* (its metadata.yaml and one or two job subdirectories).
PriorFolders(m) ==
  LET g == ReplaceSlash(m)
  IN {[meta |-> NoFile, jobs |-> {}],
      [meta |-> HandMetadata, jobs |-> {}],
      [meta |-> create_metadata_yaml(m), jobs |-> {PriorCopy(g, R_day1)}],
      [meta |-> create_metadata_yaml(m),
       jobs |-> {PriorCopy(g, R_day1), PriorCopy(g, J_first)}]}

\* ------------------------------------------------------------------- state

VARIABLES
  data,      \* the payload handed to _get_passed
  out,       \* the outcome of _get_passed(data)
  rpc,       \* "start" before the call, "done" after it
  tree,      \* find_trial_results: path -> content of each result.json
  pending,   \* the paths rglob has not yielded yet
  results,   \* the list `results` of find_trial_results
  returned,  \* the list find_trial_results returned
  lpc,       \* "walking", then "returned", "raised" (in the loop) or
             \* "raised-sorting", then "summarised", "nomatch" or "main-raised"
  by_model,  \* main: model -> the list of its results
  summary,   \* main: model -> the [passed, total] it prints
  lexc,      \* the exception find_trial_results or main raised, "none" if none
  args,      \* main: the --task, --model and --failures-only arguments
  printed,   \* main: the lines the loop of line 341 has printed
  folder,    \* build_rows: entry name -> entry of the job folder
  job_result, \* the job folder's own result.json
  job_config, \* the kind of the job folder's config.json
  bexc,      \* the exception build_rows raised, "none" if none
  accuracy,  \* the `accuracy` of build_rows, NotComputed before line 70
  remaining, \* the entries the loop of build_rows has not reached
  rows,      \* the list `rows` of build_rows
  bpc,       \* "start", "building", then "returned" or "raised"
  fsDirs,    \* output tree: the model-slug folders that exist
  fsMeta,    \* output tree: model-slug -> its metadata.yaml, or NoFile
  fsJobs,    \* output tree: the job subdirectories [slug, name, src]
  run_date,  \* prepare_submission: the run_date argument
  submissions, \* the dict `submissions`, as its set of [model, dir]
  visited,   \* job folder <<item, name>> -> outcome, for those reached
  curItem,   \* the artifact container the outer loop is in
  doneItems, \* the artifact containers the outer loop has left
  lastJob,   \* the job folder of the last iteration, and what became of it
  copiedNow, \* the jobs copied by this invocation: [src, model, slug]
  spc        \* "idle", "running", "returned" or "raised"

resolverVars == <<data, out, rpc>>
locatorVars ==
  <<tree, pending, results, returned, lpc, lexc, by_model, summary, args,
    printed>>
rowVars ==
  <<folder, job_result, job_config, bexc, accuracy, remaining, rows, bpc>>
fsVars == <<fsDirs, fsMeta, fsJobs>>
submitVars ==
  <<fsVars, run_date, submissions, visited, curItem, doneItems, lastJob,
    copiedNow, spc>>
vars == <<resolverVars, locatorVars, rowVars, submitVars>>

\* ------------------------------------------------- _get_passed on a payload

NotCalled == Raise("not-called")

\* The components run one at a time: a specification starts one of them and
\* leaves the others idle.
IdleResolver == data = EmptyPayload /\ out = NotCalled /\ rpc = "idle"
IdleLocator ==
  /\ tree = <<>> /\ pending = {} /\ results = <<>> /\ returned = <<>>
  /\ lpc = "idle" /\ lexc = "none" /\ by_model = <<>> /\ summary = <<>>
  /\ args = NoArgs /\ printed = <<>>

NotComputed == [t |-> "not-computed", n |-> 0, s |-> <<>>]
IdleRows ==
  /\ folder = <<>> /\ job_result = NoJobResult /\ accuracy = NotComputed
  /\ job_config = "missing" /\ bexc = "none"
  /\ remaining = {} /\ rows = <<>> /\ bpc = "idle"
NoJob ==
  [item |-> <<>>, name |-> <<>>,
   entry |-> [isdir |-> FALSE, hasResult |-> FALSE, config |-> NoConfig],
   outcome |-> "none", model |-> Null, exc |-> "none"]
IdleSubmit ==
  /\ fsDirs = {} /\ fsMeta = [g \in Slugs |-> NoFile] /\ fsJobs = {}
  /\ run_date = Null /\ submissions = {} /\ visited = <<>> /\ curItem = <<>>
  /\ doneItems = {} /\ lastJob = NoJob /\ copiedNow = {}
  /\ spc = "off"

InitResolver ==
  /\ data \in ResolverPayloads
  /\ out = NotCalled
  /\ rpc = "start"
  /\ IdleLocator
  /\ IdleRows
  /\ IdleSubmit

Resolve ==
  /\ rpc = "start"
  /\ out' = _get_passed(data)
  /\ rpc' = "done"
  /\ UNCHANGED <<data, locatorVars, rowVars, submitVars>>

NextResolver == Resolve

SpecResolver == InitResolver /\ [][NextResolver]_vars

\* ------------------------------------------- find_trial_results on a tree

InitLocator ==
  /\ \E P \in TreePathSets : tree \in [P -> TreeBodies]
  /\ pending = DOMAIN tree
  /\ results = <<>>
  /\ returned = <<>>
  /\ lpc = "walking"
  /\ lexc = "none"
  /\ by_model = <<>>
  /\ summary = <<>>
  /\ args = NoArgs
  /\ printed = <<>>
  /\ IdleResolver
  /\ IdleRows
  /\ IdleSubmit

\* One iteration of `for result_file in run_dir.rglob("result.json")`; rglob
\* yields the files in the order the directory scan finds them.
VisitFile ==
  /\ lpc = "walking"
  /\ \E path \in pending :
       \E o \in {VisitResult(results, path, tree[path])} :
          /\ pending' = pending \ {path}
          /\ results' = o.results
          /\ lexc' = o.exc
          /\ lpc' = IF o.exc = "none" THEN "walking" ELSE "raised"
  /\ UNCHANGED <<tree, returned, by_model, summary, args, printed,
                 resolverVars, rowVars, submitVars>>

\* return sorted(results, key=lambda x: x["task_name"]); lpc is
\* "raised-sorting" when sorted raises.
ReturnSorted ==
  /\ lpc = "walking"
  /\ pending = {}
  /\ LET o == SortResults(results)
     IN /\ returned' = o.results
        /\ lexc' = o.exc
        /\ lpc' = IF o.exc = "none" THEN "returned" ELSE "raised-sorting"
  /\ UNCHANGED <<tree, pending, results, by_model, summary, args, printed,
                 resolverVars, rowVars, submitVars>>

\* main, lines 310-349, on what find_trial_results returned, for any
\* arguments: the filters, "No matching results found" for an empty list,
\* else the results grouped by model and the lines printed for each group,
\* until print_trial_summary raises.
Summarise ==
  /\ lpc = "returned"
  /\ \E a \in MainArgs :
       LET o == MainOutcome(returned, a)
       IN /\ args' = a
          /\ by_model' = o.by_model
          /\ printed' = o.printed
          /\ summary' = SummaryOf(o.printed)
          /\ lexc' = o.exc
          /\ lpc' = o.pc
  /\ UNCHANGED <<tree, pending, results, returned, resolverVars, rowVars,
                 submitVars>>

NextLocator == VisitFile \/ ReturnSorted \/ Summarise

SpecLocator == InitLocator /\ [][NextLocator]_vars

\* --------------------------------------------------- build_rows on a job folder

InitRows ==
  /\ \E inp \in JobInputs :
       folder = inp[1] /\ job_result = inp[2] /\ job_config = inp[3]
  /\ bexc = "none"
  /\ accuracy = NotComputed
  /\ remaining = DOMAIN folder
  /\ rows = <<>>
  /\ bpc = "start"
  /\ IdleResolver
  /\ IdleLocator
  /\ IdleSubmit

\* Lines 56-110: the job-level files are loaded and the base row, with the
\* job's accuracy, is built, unless one of the lines raises.
LoadJob ==
  /\ bpc = "start"
  /\ LET o == BaseRowAccuracy(job_result, job_config)
     IN /\ accuracy' = IF o.exc = "none" THEN o.val ELSE NotComputed
        /\ bexc' = o.exc
        /\ bpc' = IF o.exc = "none" THEN "building" ELSE "raised"
  /\ UNCHANGED <<folder, job_result, job_config, remaining, rows, resolverVars,
                 locatorVars, submitVars>>

\* One iteration of the loop over sorted(job_folder.iterdir()).
BuildRow ==
  /\ bpc = "building"
  /\ remaining # {}
  /\ LET name == LeastName(remaining)
     IN /\ rows' = RowsAfter(rows, name, folder[name], accuracy)
        /\ remaining' = remaining \ {name}
        /\ bpc' = IF RowRaises(folder[name]) THEN "raised" ELSE "building"
        /\ bexc' = IF RowRaises(folder[name]) THEN "AttributeError" ELSE "none"
  /\ UNCHANGED <<folder, job_result, job_config, accuracy, resolverVars,
                 locatorVars, submitVars>>

\* The counts over all rows, back-filled, and the return.
ReturnRows ==
  /\ bpc = "building"
  /\ remaining = {}
  /\ rows' = BackFilled(rows)
  /\ bpc' = "returned"
  /\ UNCHANGED <<folder, job_result, job_config, bexc, accuracy, remaining,
                 resolverVars, locatorVars, submitVars>>

NextRows == LoadJob \/ BuildRow \/ ReturnRows

SpecRows == InitRows /\ [][NextRows]_vars

\* ------------------------------------- prepare_submission on an output tree

\* The output tree before the invocation: what earlier invocations and hand
\* edits left for the two models.
InitSubmit ==
  /\ \E po \in PriorFolders(M_opus),
        pg \in {f \in PriorFolders(M_gpt52) : f.jobs = {}} :
       /\ fsMeta = (ReplaceSlash(M_opus) :> po.meta) @@ (ReplaceSlash(M_gpt52) :> pg.meta)
       /\ fsJobs = po.jobs \cup pg.jobs
  /\ fsDirs = {g \in Slugs : fsMeta[g].exists}
  /\ run_date = Null
  /\ submissions = {}
  /\ visited = <<>>
  /\ curItem = <<>>
  /\ doneItems = {}
  /\ lastJob = NoJob
  /\ copiedNow = {}
  /\ spc = "idle"
  /\ IdleResolver
  /\ IdleLocator
  /\ IdleRows

\* prepare_submission(artifacts_dir, output_dir, run_date) is called.
StartSubmission ==
  /\ spc = "idle"
  /\ run_date' \in RunDates
  /\ spc' = "running"
  /\ UNCHANGED <<fsVars, submissions, visited, curItem, doneItems, lastJob,
                 copiedNow, resolverVars, locatorVars, rowVars>>

\* What one iteration of the inner loop does with a job folder: "notdir",
\* "nofiles" and "nomodel" skip it, "raised" leaves prepare_submission with
\* the exception exc, "copied" copies it under the model's slug. A model that
\* is truthy and no str makes model.replace (line 281) raise AttributeError,
\* before anything is written.
JobOutcome(item, entry) ==
  LET found == DetermineModel(entry.config, item)
      skip(kind) == [outcome |-> kind, model |-> Null, exc |-> "none"]
  IN IF ~entry.isdir THEN skip("notdir")
     ELSE IF entry.config.kind = "missing" /\ ~entry.hasResult
       THEN skip("nofiles")
     ELSE IF found.exc # "none"
       THEN [outcome |-> "raised", model |-> Null, exc |-> found.exc]
     ELSE IF ~Truthy(found.val) THEN skip("nomodel")
     ELSE IF found.val.t # "str"
       THEN [outcome |-> "raised", model |-> Null, exc |-> "AttributeError"]
     ELSE [outcome |-> "copied", model |-> found.val, exc |-> "none"]

\* One iteration of `for job_folder in jobs_dir.iterdir()`, the outer loop
\* moving to another artifact container when this one has no job folder left.
ProcessJob ==
  /\ spc = "running"
  /\ Cardinality(DOMAIN visited) < MaxJobs
  /\ \E src \in JobPaths, entry \in JobEntries :
       LET item == src[1]
           name == src[2]
           o == JobOutcome(item, entry)
           slug == ReplaceSlash(o.model.s)
       IN /\ src \notin DOMAIN visited
          /\ item \notin doneItems
          /\ visited' = visited @@ (src :> o.outcome)
          /\ curItem' = item
          /\ doneItems' = IF curItem = item \/ curItem = <<>> THEN doneItems
                          ELSE doneItems \cup {curItem}
          /\ lastJob' = [item |-> item, name |-> name, entry |-> entry,
                         outcome |-> o.outcome, model |-> o.model,
                         exc |-> o.exc]
          /\ spc' = IF o.outcome = "raised" THEN "raised" ELSE "running"
          /\ IF o.outcome = "copied"
               THEN /\ fsDirs' = fsDirs \cup {slug}
                    /\ fsMeta' = MetadataAfter(fsMeta, slug, o.model.s)
                    /\ fsJobs' = JobsAfter(fsJobs, slug,
                                           JobNameOf(run_date, name), src)
                    /\ submissions' =
                         submissions \cup {[model |-> o.model.s, dir |-> slug]}
                    /\ copiedNow' = copiedNow \cup
                         {[src |-> src, model |-> o.model.s, slug |-> slug]}
               ELSE UNCHANGED <<fsVars, submissions, copiedNow>>
  /\ UNCHANGED <<run_date, resolverVars, locatorVars, rowVars>>

\* The loops end: return submissions.
ReturnSubmissions ==
  /\ spc = "running"
  /\ spc' = "returned"
  /\ UNCHANGED <<fsVars, run_date, submissions, visited, curItem, doneItems,
                 lastJob, copiedNow, resolverVars, locatorVars, rowVars>>

NextSubmit == StartSubmission \/ ProcessJob \/ ReturnSubmissions

SpecSubmit == InitSubmit /\ [][NextSubmit]_vars

\* ------------------------------------------------ claims on the Status Resolver

\* Rule 1 and rule 2 of the chain, as conditions on the payload.
Rule1Matches(d) == d.passed.t # "absent" /\ d.passed.t # "null"
Rule2Matches(d) == ~Rule1Matches(d) /\ d.score.t # "absent"
Rule3Reached(d) == ~Rule1Matches(d) /\ d.score.t = "absent"

\* C1: a payload whose `passed` key holds true or false resolves to exactly
\* that value, whatever `score` and `verifier_result` hold.
C1_PassedKeyWins ==
  (rpc = "done" /\ data.passed \in {JTrue, JFalse}) => out = Return(data.passed)

\* C1 witness: `passed` is false while the score is positive and the
\* verifier object says passed; the resolver has returned False.
C1_Witness ==
  /\ rpc = "done"
  /\ data.passed = JFalse
  /\ data.score = Num(5)
  /\ data.verifier_result.t = "obj"
  /\ data.verifier_result.passed = JTrue
  /\ out = Return(JFalse)

\* C2: with no non-null `passed` key and a numeric `score`, the verdict is
\* Passed iff score > 0 (Failed otherwise), whatever `verifier_result` holds.
C2_ScoreRule ==
  (rpc = "done" /\ Rule2Matches(data) /\ data.score.t = "num")
    => out = Return(PyBool(data.score.n > 0))

\* C2 witness: score 0 with a verifier object that says passed resolves to
\* Failed.
C2_Witness ==
  /\ rpc = "done"
  /\ data.passed.t = "absent"
  /\ data.score = Num(0)
  /\ data.verifier_result.t = "obj"
  /\ data.verifier_result.passed = JTrue
  /\ out = Return(JFalse)

\* C8: when rules 1 and 2 do not match and `verifier_result` is an object,
\* (a) a `passed` key gives that value coerced to boolean, (b) else a
\* `rewards` object gives Passed iff its reward, 0 when missing, coerces to a
\* float > 0; `{"rewards": {}}` alone gives Failed.
C8_VerifierRule ==
  (rpc = "done" /\ Rule3Reached(data) /\ data.verifier_result.t = "obj") =>
    LET vr == data.verifier_result
    IN /\ vr.passed.t # "absent" => out = Return(PyBool(Truthy(vr.passed)))
       /\ (vr.passed.t = "absent" /\ vr.rewards.t = "obj") =>
            /\ vr.rewards.reward.t = "absent" => out = Return(JFalse)
            /\ vr.rewards.reward.t \in {"num", "bool"} =>
                 out = Return(PyBool(vr.rewards.reward.n > 0))
            /\ vr.rewards.reward \in
                 {Str(<<"5">>), Str(<<"1", ".", "5">>), Str(<<" ", "5">>),
                  Str(<<"1", "e", "1">>), Str(<<"1", "_", "0">>),
                  Str(<<"i", "n", "f">>), Str(<<"(U+000B)", "5">>),
                  Str(<<"5", "(U+00A0)">>), Str(<<"(U+0665)">>),
                  Str(<<"(U+1D7D9)", ".", "(U+FF15)">>)} =>
                 out = Return(JTrue)
            /\ vr.rewards.reward \in
                 {Str(<<"-", "1">>), Str(<<"0">>), Str(<<"-", "2", ".", "5">>),
                  Str(<<"0", ".", "0">>), Str(<<"n", "a", "n">>),
                  Str(<<"1", "e", "-", "4", "0", "0">>), Str(<<"(U+0966)">>)} =>
                 out = Return(JFalse)

\* C8 witness: the payload is only `{"verifier_result": {"rewards": {}}}`
\* and the resolver has returned False.
C8_Witness ==
  /\ rpc = "done"
  /\ data = Payload(Absent, Absent,
                    [t |-> "obj", passed |-> Absent,
                     rewards |-> [t |-> "obj", reward |-> Absent]],
                    Absent, Absent, Absent)
  /\ out = Return(JFalse)

\* No rule of the chain gives a verdict for the payload.
NoRuleMatches(d) ==
  /\ ~Rule1Matches(d)
  /\ d.score.t = "absent"
  /\ d.verifier_result.passed.t = "absent"
  /\ d.verifier_result.rewards.t = "absent"

\* C9: a payload with none of the keys `passed`, `score`, `verifier_result`
\* resolves to None (Unknown), and None is returned only when no rule of the
\* chain matched.
C9_UnknownOnlyWhenNoRule ==
  rpc = "done" =>
    /\ (data.passed.t = "absent" /\ data.score.t = "absent"
          /\ data.verifier_result.t = "absent") => out = Return(Null)
    /\ out = Return(Null) => NoRuleMatches(data)

\* C9 witness: the empty payload has resolved to None.
C9_Witness == rpc = "done" /\ data = EmptyPayload /\ out = Return(Null)

\* ------------------------------------------------ claims on the Result Locator

\* The result.json at `path` passes both exclusion rules and parses to an object.
IsTrialResult(path) ==
  /\ ~StartsWith(path[2], S_20)
  /\ path[2] \notin NonTrialContainers
  /\ tree[path].kind = "object"

\* float(v) fails: v is present and is no number and no numeric string.
NonNumeric(v) ==
  \/ v.t \in {"null", "list"}
  \/ v.t = "str" /\ ParseFloat(v.s).exc # "none"

\* The payload reaches a numeric coercion (rule 2, or rule 3b) of a value that
\* is not a number.
CoercionFails(d) ==
  \/ Rule2Matches(d) /\ NonNumeric(d.score)
  \/ /\ Rule3Reached(d)
     /\ d.verifier_result.t = "obj"
     /\ d.verifier_result.passed.t = "absent"
     /\ d.verifier_result.rewards.t = "obj"
     /\ NonNumeric(d.verifier_result.rewards.reward)

\* C3: a score or reward that is not a number never makes the resolver raise:
\* find_trial_results does not raise, and it returns a record for every trial
\* of the tree, with verdict Failed for a trial whose coercion fails.
C3_CoercionNeverRaises ==
  /\ lpc # "raised"
  /\ lpc = "returned" =>
       \A path \in DOMAIN tree :
         IsTrialResult(path) =>
           \E i \in 1..Len(returned) :
             /\ returned[i].path = path
             /\ CoercionFails(tree[path].payload) => returned[i].passed = JFalse

\* The positions at which the separator "__" starts in a directory name.
SepPositions(name) ==
  {i \in 1..(Len(name) - 1) : name[i] = "_" /\ name[i + 1] = "_"}

\* The directory name up to the last occurrence of "__".
BeforeLastSep(name) ==
  LET last == CHOOSE i \in SepPositions(name) : \A j \in SepPositions(name) : j <= i
  IN SubSeq(name, 1, last - 1)

IsNonEmptyStr(v) == v.t = "str" /\ v.s # <<>>
IsAbsentOrEmpty(v) == v.t = "absent" \/ (v.t = "str" /\ v.s = <<>>)

\* What C10 says of one record of find_trial_results.
DerivedAsClaimed(r) ==
  LET d == tree[r.path].payload
      trial_folder == r.path[2]
  IN /\ (IsAbsentOrEmpty(d.task_name) /\ SepPositions(trial_folder) # {}) =>
          r.task_name = Str(BeforeLastSep(trial_folder))
     /\ IsNonEmptyStr(d.task_name) => r.task_name = d.task_name
     /\ IsNonEmptyStr(d.trial_name) => r.trial_name = d.trial_name

\* C10: a record's task id is the payload's task_name when that is present
\* and non-empty, and otherwise the directory name up to the last "__";
\* likewise a present, non-empty trial_name is used as the trial name.
C10_IdentifierDerivation ==
  /\ \A i \in 1..Len(results) : DerivedAsClaimed(results[i])
  /\ \A i \in 1..Len(returned) : DerivedAsClaimed(returned[i])

T_feal ==
  <<"f", "e", "a", "l", "-", "d", "i", "f", "f", "e", "r", "e", "n", "t",
    "i", "a", "l", "-", "c", "r", "y", "p", "t", "a", "n", "a", "l", "y",
    "s", "i", "s">>
T_two == <<"b", "u", "i", "l", "d", "_", "_", "k", "e", "r", "n", "e", "l">>

\* C10 witness: find_trial_results has returned a record for a payload whose
\* task_name and trial_name are empty, in "feal-differential-cryptanalysis__a1b2c3",
\* and a record for a payload without the keys, in a directory whose task name
\* itself contains "__"; both carry the derived names.
C10_Witness ==
  /\ lpc = "returned"
  /\ \E i, j \in 1..Len(returned) :
       /\ returned[i].path[2] = D_feal
       /\ tree[returned[i].path].payload.task_name = Str(<<>>)
       /\ tree[returned[i].path].payload.trial_name = Str(<<>>)
       /\ returned[i].task_name = Str(T_feal)
       /\ returned[i].trial_name = Str(D_feal)
       /\ returned[j].path[2] = D_two
       /\ tree[returned[j].path].payload.task_name.t = "absent"
       /\ returned[j].task_name = Str(T_two)

\* ------------------------------------------------- claims on the Row Builder

\* The trial folders of the job whose result.json loads to a non-empty object.
RowTrials == {n \in DOMAIN folder : folder[n].isdir /\ ~IsFalsyResult(load_json(folder[n].body))}

\* The trials of the job whose resolved verdict is v.
TrialsWithVerdict(v) ==
  {n \in RowTrials : VerdictOf(_get_passed(folder[n].body.payload)) = v}

\* C4: when build_rows returns, every row carries n_resolved = the number of
\* the job's trials whose verdict is Passed and n_unresolved = the number
\* whose verdict is Failed; a job of {"passed": true}, {"score": 0} and an
\* unreadable JSON gives two rows with n_resolved = 1 and n_unresolved = 1.
C4_CountsFollowVerdicts ==
  bpc = "returned" =>
    /\ Len(rows) = Cardinality(RowTrials)
    /\ \A i \in 1..Len(rows) :
         /\ rows[i].n_resolved = Num(Cardinality(TrialsWithVerdict(Passed)))
         /\ rows[i].n_unresolved = Num(Cardinality(TrialsWithVerdict(Failed)))

\* -------------------------------------------- claims on the Submission Assembler

\* C5: when an invocation with a run_date has processed distinct jobs, each
\* job copied has its own job subdirectory in its model-slug folder (two jobs
\* of one model give two subdirectories beside one metadata.yaml).
C5_OneSubdirPerJob ==
  Truthy(run_date) =>
    \A c \in copiedNow :
      /\ fsMeta[c.slug].exists
      /\ \E j \in fsJobs : j.slug = c.slug /\ j.src = c.src

\* C6: a metadata.yaml that exists is never changed: it is written only when
\* the model-slug folder has none.
C6_MetadataFirstWriterWins ==
  [][\A g \in Slugs : fsMeta[g].exists => fsMeta'[g] = fsMeta[g]]_vars

\* C6 witness: a job whose config names the model "anthropic-claude-opus-4-5"
\* wrote the metadata.yaml of the slug folder, a later job of the model
\* "anthropic/claude-opus-4-5" was copied into the same folder, and the file
\* is as the first job wrote it.
C6_Witness ==
  /\ fsMeta[ReplaceSlash(M_opus)] = create_metadata_yaml(M_dashed)
  /\ create_metadata_yaml(M_dashed) # create_metadata_yaml(M_opus)
  /\ \E c, d \in copiedNow : c.model = M_dashed /\ d.model = M_opus

\* The job config's model_name, its agent_kwargs.model_name, and the model the
\* artifact container's name matches: each the value, or Null when it fails.
ByConfigField(c) ==
  IF c.kind = "object" /\ IsNonEmptyStr(c.model_name) THEN c.model_name ELSE Null
ByAgentKwargs(c) ==
  IF c.kind = "object" /\ c.agent_kwargs.t = "obj"
       /\ IsNonEmptyStr(c.agent_kwargs.model_name)
    THEN c.agent_kwargs.model_name
    ELSE Null
ByArtifactName(item) == parse_model_from_artifact_name(item)

\* The first of the three that does not fail, Null when all three fail.
ModelByPriority(c, item) ==
  IF ByConfigField(c) # Null THEN ByConfigField(c)
  ELSE IF ByAgentKwargs(c) # Null THEN ByAgentKwargs(c)
  ELSE ByArtifactName(item)

\* A job folder the loop takes as a job, whose config.json, if it is JSON,
\* has the types the lookups expect: an object, its model_name a str or
\* null, its agent_kwargs an object whose model_name is a str or null.
IsTypedJob(j) ==
  LET c == j.entry.config
  IN /\ j.entry.isdir
     /\ c.kind # "missing" \/ j.entry.hasResult
     /\ c.kind # "nonobject"
     /\ c.model_name.t \in {"absent", "null", "str"}
     /\ c.agent_kwargs.t \in {"absent", "obj"}
     /\ c.agent_kwargs.model_name.t \in {"absent", "null", "str"}

\* C7: the model of a job is the first that succeeds of the config's
\* model_name, the config's agent_kwargs.model_name and the pattern match on
\* the artifact container name, and the job is copied under it; when all three
\* fail the job is skipped: the output tree and the returned mapping are
\* unchanged and the loop goes on.
C7_ModelPriorityOrSkip ==
  [][(lastJob' # lastJob /\ lastJob'.outcome # "none" /\ IsTypedJob(lastJob')) =>
       LET j == lastJob'
           m == ModelByPriority(j.entry.config, j.item)
       IN IF m = Null
            THEN /\ j.outcome = "nomodel"
                 /\ UNCHANGED <<fsDirs, fsMeta, fsJobs, submissions, copiedNow>>
                 /\ spc' = "running"
            ELSE /\ j.outcome = "copied"
                 /\ j.model = m
                 /\ [model |-> m.s, dir |-> ReplaceSlash(m.s)] \in submissions'
                 /\ ReplaceSlash(m.s) \in fsDirs'
                 /\ \E d \in fsJobs' :
                      d.slug = ReplaceSlash(m.s) /\ d.src = <<j.item, j.name>>
                 /\ spc' = "running"
  ]_vars

\* C7 witness: a job whose three lookups all failed was skipped, and a later
\* job of the same invocation, whose model came from agent_kwargs, was copied.
C7_Witness ==
  /\ \E src \in DOMAIN visited :
       visited[src] = "nomodel" /\ src # <<lastJob.item, lastJob.name>>
  /\ lastJob.outcome = "copied"
  /\ lastJob.entry.config = Config(Str(<<>>), Kwargs(Str(M_gpt52)))
  /\ lastJob.model = Str(M_gpt52)
  /\ [model |-> M_gpt52, dir |-> ReplaceSlash(M_gpt52)] \in submissions

\* ------------------------------------- further claims on the Result Locator

\* The trials of the tree whose payload has neither identifier field and whose
\* directory name holds no "__".
LacksIdentifiers(d) == d.task_name.t = "absent" /\ d.trial_name.t = "absent"
UnparseableTrials ==
  {path \in DOMAIN tree :
     /\ IsTrialResult(path)
     /\ LacksIdentifiers(tree[path].payload)
     /\ SepPositions(path[2]) = {}}

\* C11 as stated: a trial without identifier fields in a directory whose name
\* has no "__" is skipped: find_trial_results returns no record for it.
C11_UnparseableSkipped ==
  lpc = "returned" =>
    \A path \in UnparseableTrials :
      \A i \in 1..Len(returned) : returned[i].path # path

\* C11 amended: such a trial is not skipped: every list find_trial_results
\* returns holds its record, with the whole directory name as task name and as
\* trial name, beside the records of the other trials.
C11_UnparseableKept ==
  lpc = "returned" =>
    /\ \A path \in UnparseableTrials :
         \E i \in 1..Len(returned) :
           /\ returned[i].path = path
           /\ returned[i].task_name = Str(path[2])
           /\ returned[i].trial_name = Str(path[2])
    /\ \A path \in DOMAIN tree :
         IsTrialResult(path) => \E i \in 1..Len(returned) : returned[i].path = path

\* C11 witness: the tree holds a trial in the directory "plain" and a trial in
\* a "task__hash" directory, and both records were returned.
C11_Witness ==
  /\ lpc = "returned"
  /\ \E path \in UnparseableTrials : path[2] = D_plain
  /\ \E i, j \in 1..Len(returned) :
       /\ returned[i].path[2] = D_plain
       /\ returned[i].task_name = Str(D_plain)
       /\ returned[j].path[2] = D_feal

\* No payload of the tree is one on which _get_passed raises (the case of C3).
ResolverReturnsOnTree ==
  \A path \in DOMAIN tree :
    tree[path].kind = "object" => _get_passed(tree[path].payload).exc = "none"

\* C12: a result.json that is unreadable, invalid JSON, or JSON that is no
\* object never aborts the batch: find_trial_results does not raise and
\* returns a record for every well-formed trial of the tree (stated for the
\* trees on which the resolver itself does not raise).
C12_FailureIsolation ==
  ResolverReturnsOnTree =>
    /\ lpc # "raised"
    /\ lpc = "returned" =>
         \A path \in DOMAIN tree :
           IsTrialResult(path) => \E i \in 1..Len(returned) : returned[i].path = path

\* A timestamp-named job directory: YYYY-MM-DD__HH-MM-SS.
TimestampShape ==
  <<"d", "d", "d", "d", "-", "d", "d", "-", "d", "d", "_", "_", "d", "d", "-",
    "d", "d", "-", "d", "d">>
IsTimestampName(name) ==
  /\ Len(name) = Len(TimestampShape)
  /\ \A i \in 1..Len(name) :
       IF TimestampShape[i] = "d" THEN name[i] \in DOMAIN DigitVal
       ELSE name[i] = TimestampShape[i]

\* C13: find_trial_results returns a record for exactly the parseable
\* result.json files whose parent directory is neither a timestamp-named job
\* directory nor one of logs, output, verifier, agent; a result.json in a
\* trial directory <task-name>__<hash> is included whatever the task name.
C13_SelectionExact ==
  lpc = "returned" =>
    \A path \in DOMAIN tree :
      tree[path].kind = "object" =>
        ((\E i \in 1..Len(returned) : returned[i].path = path)
           <=> ~(IsTimestampName(path[2]) \/ path[2] \in NonTrialContainers))

\* A fixed order of the paths of a tree: by artifact name, then directory name.
PathLess(p, q) == StrLess(p[1], q[1]) \/ (p[1] = q[1] /\ StrLess(p[2], q[2]))
LeastPath(paths) == CHOOSE p \in paths : \A q \in paths \ {p} : PathLess(p, q)

\* The list `results` of the run whose walk yields the files in that order.
RECURSIVE WalkInPathOrder(_, _)
WalkInPathOrder(paths, res) ==
  IF paths = {} THEN res
  ELSE LET p == LeastPath(paths)
       IN WalkInPathOrder(paths \ {p}, VisitResult(res, p, tree[p]).results)

\* C14: for a fixed tree the sequence find_trial_results returns is the same
\* in every run, whatever order the walk yields the files in: every run
\* returns what the run walking in path order returns, also when several
\* trials share a task name.
C14_DeterministicOrder ==
  lpc = "returned" => returned = SortedByTaskName(WalkInPathOrder(DOMAIN tree, <<>>))

\* ----------------------------------------- further claims on the Row Builder

\* The evaluation groups of the job whose first metrics entry has a mean.
GroupsWithMean ==
  {i \in 1..Len(job_result.evals) :
     LET g == job_result.evals[i]
     IN /\ job_result.kind = "object" /\ job_result.hasStats /\ job_result.hasEvals
        /\ g.hasMetrics /\ Len(g.metrics) >= 1 /\ g.metrics[1].t # "absent"}

\* The sum of the first entries' means over a set of groups.
RECURSIVE SumOfFirstMeans(_)
SumOfFirstMeans(G) ==
  IF G = {} THEN 0
  ELSE LET i == CHOOSE j \in G : TRUE
       IN job_result.evals[i].metrics[1].n + SumOfFirstMeans(G \ {i})

\* C15: once build_rows has computed it (the means being numbers), the job's
\* accuracy is the arithmetic mean of the first metrics entries' means over
\* the groups that have one; it is None, not 0, when no group has one, and
\* 0, not None, when the means are all 0; every row carries it.
C15_AccuracyIsMeanOfMeans ==
  accuracy # NotComputed =>
    /\ GroupsWithMean = {} => accuracy = Null
    /\ GroupsWithMean # {} =>
         /\ accuracy.t = "float"
         /\ accuracy.num * Cardinality(GroupsWithMean)
              = SumOfFirstMeans(GroupsWithMean) * accuracy.den
    /\ (GroupsWithMean # {} /\ SumOfFirstMeans(GroupsWithMean) = 0) =>
         accuracy = Quotient(0, 1)
    /\ \A i \in 1..Len(rows) : rows[i].accuracy = accuracy

\* C15 witness: a job with a group whose only mean is 0 (its second metrics
\* entry, 4, ignored) and a group without a mean; build_rows has returned a
\* row whose accuracy is 0.
C15_Witness ==
  /\ bpc = "returned"
  /\ job_result.evals = <<Group(<<Num(0), Num(4)>>), Group(<<Absent, Num(1)>>)>>
  /\ Len(rows) = 1
  /\ rows[1].accuracy = Quotient(0, 1)

\* --------------------------------- further claims on the Submission Assembler

\* The job copies of the tree are still there after the step, but for one at
\* the destination path of the job the step copies.
CopiesPreserved ==
  \A j \in fsJobs :
    \/ j \in fsJobs'
    \/ /\ j.slug = ReplaceSlash(lastJob'.model.s)
       /\ j.name = JobNameOf(run_date, lastJob'.name)

\* C16 as stated: a job copied into a model-slug folder that already holds a
\* metadata.yaml overwrites that file, and the job copies already there are
\* preserved unless the job is copied to the same destination path.
C16_RebuildOverwritesMetadata ==
  [][(lastJob' # lastJob /\ lastJob'.outcome = "copied") =>
       LET g == ReplaceSlash(lastJob'.model.s)
       IN /\ fsMeta[g].exists => fsMeta'[g] = create_metadata_yaml(lastJob'.model.s)
          /\ CopiesPreserved
  ]_vars

\* C16 amended: such a job leaves the metadata.yaml that exists as it is (it
\* writes one only where there is none), and the job copies already there are
\* preserved unless the job is copied to the same destination path.
C16_RebuildKeepsMetadata ==
  [][(lastJob' # lastJob /\ lastJob'.outcome = "copied") =>
       LET g == ReplaceSlash(lastJob'.model.s)
       IN /\ fsMeta[g].exists => fsMeta'[g] = fsMeta[g]
          /\ ~fsMeta[g].exists => fsMeta'[g] = create_metadata_yaml(lastJob'.model.s)
          /\ CopiesPreserved
  ]_vars

\* C16 witness: the tree held the metadata.yaml and two job copies of an
\* earlier invocation; a job whose config names another model of the same
\* slug was copied over the copy at its destination path, the other copy and
\* the metadata.yaml are as they were.
C16_Witness ==
  LET g == ReplaceSlash(M_opus)
  IN /\ fsMeta[g] = create_metadata_yaml(M_opus)
     /\ lastJob.outcome = "copied"
     /\ lastJob.model = Str(M_dashed)
     /\ PriorCopy(g, J_first) \in fsJobs
     /\ PriorCopy(g, R_day1) \notin fsJobs
     /\ [slug |-> g, name |-> R_day1, src |-> <<lastJob.item, lastJob.name>>] \in fsJobs

\* ------------------------------------------ claims on the per-model summary

\* The model a result belongs to by the claim: its artifact container's name
\* without the prefix "terminal-bench-results-", "unknown" for a container
\* that has no such prefix.
ClaimedModel(path) ==
  IF StartsWith(path[1], S_results_prefix)
    THEN SubSeq(path[1], Len(S_results_prefix) + 1, Len(path[1]))
    ELSE S_unknown

\* The results main groups: those the filters of lines 310-322 leave.
Grouped == FilterResults(returned, args).results

\* The results of the list g that belong to model m, and those of them whose
\* verdict is Passed.
ResultsOfModel(g, m) == {i \in 1..Len(g) : ClaimedModel(g[i].path) = m}
PassedOfModel(g, m) ==
  {i \in ResultsOfModel(g, m) : VerdictOf(Return(g[i].passed)) = Passed}

RECURSIVE SumOfTotals(_)
SumOfTotals(models) ==
  IF models = {} THEN 0
  ELSE LET m == CHOOSE x \in models : TRUE
       IN summary[m].total + SumOfTotals(models \ {m})

\* C17: the results are partitioned by the model of their artifact
\* container: every result is in the group of its model and in no other, a
\* group's total is the number of its results and its passed count the number
\* of them with verdict Passed (Unknown and Failed count toward the total
\* only), so passed <= total and the totals sum to the number of results.
\* The groups are those of by_model once the grouping of lines 329-338 is
\* done; the counts are those of every model line printed, which is every
\* group's when main ends without raising.
C17_PerModelCounts ==
  (lpc \in {"summarised", "main-raised"} /\ by_model # <<>>) =>
    LET g == Grouped
    IN /\ \A i \in 1..Len(g) : \A m \in DOMAIN by_model :
            (\E k \in 1..Len(by_model[m]) : by_model[m][k] = g[i])
              <=> m = ClaimedModel(g[i].path)
       /\ \A i \in 1..Len(g) : ClaimedModel(g[i].path) \in DOMAIN by_model
       /\ \A m \in DOMAIN by_model :
            Len(by_model[m]) = Cardinality(ResultsOfModel(g, m))
       /\ \A m \in DOMAIN summary :
            /\ m \in DOMAIN by_model
            /\ summary[m].total = Cardinality(ResultsOfModel(g, m))
            /\ summary[m].passed = Cardinality(PassedOfModel(g, m))
            /\ summary[m].passed <= summary[m].total
       /\ lpc = "summarised" =>
            /\ DOMAIN summary = DOMAIN by_model
            /\ SumOfTotals(DOMAIN summary) = Len(g)

M_opus_run ==
  <<"a", "n", "t", "h", "r", "o", "p", "i", "c", "-", "c", "l", "a", "u",
    "d", "e", "-", "o", "p", "u", "s", "-", "4", "-", "5", "-", "7", "7">>

\* C17 witness: a result with verdict Unknown under a container without the
\* prefix is alone in the group "unknown", counted 0/1, beside a passed
\* result in the group of its artifact's model, counted 1/1.
C17_Witness ==
  /\ lpc = "summarised"
  /\ args = NoArgs
  /\ DOMAIN summary = {S_unknown, M_opus_run}
  /\ summary[S_unknown] = [passed |-> 0, total |-> 1]
  /\ by_model[S_unknown][1].passed = Null
  /\ summary[M_opus_run] = [passed |-> 1, total |-> 1]

\* ------------------------------------------- claims on the rows build_rows emits

\* The subdirectories of the job folder whose result.json is a non-empty
\* JSON object.
NonEmptyResultDirs ==
  {n \in DOMAIN folder :
     /\ folder[n].isdir
     /\ folder[n].body.kind = "object"
     /\ folder[n].body.payload # EmptyPayload}

\* C18: build_rows returns one row for each subdirectory whose result.json
\* loads to a non-empty object and for nothing else, in the order of the
\* directory names; trials without such a file give no row and count in
\* neither n_resolved nor n_unresolved, and plain files are ignored.
C18_RowsOfNonEmptyResults ==
  bpc = "returned" =>
    /\ {rows[i].task_id : i \in 1..Len(rows)} = NonEmptyResultDirs
    /\ Len(rows) = Cardinality(NonEmptyResultDirs)
    /\ \A i, j \in 1..Len(rows) : i < j => StrLess(rows[i].task_id, rows[j].task_id)
    /\ \A i \in 1..Len(rows) :
         /\ rows[i].passed = DictGet(folder[rows[i].task_id].body.payload.passed)
         /\ rows[i].n_resolved =
              Num(Cardinality({n \in NonEmptyResultDirs :
                                 folder[n].body.payload.passed = JTrue}))
         /\ rows[i].n_unresolved =
              Num(Cardinality({n \in NonEmptyResultDirs :
                                 folder[n].body.payload.passed = JFalse}))

\* C18 witness: a job folder with its own result.json, a trial whose
\* result.json is {}, and two trials with non-empty results; build_rows has
\* returned the two rows in name order, each with counts 1 and 1.
C18_Witness ==
  /\ bpc = "returned"
  /\ DOMAIN folder = {D_2048, D_feal, D_two, F_result}
  /\ folder[D_feal].body = Obj(EmptyPayload)
  /\ ~folder[F_result].isdir
  /\ Len(rows) = 2
  /\ rows[1].task_id = D_2048 /\ rows[1].passed = JFalse
  /\ rows[2].task_id = D_two /\ rows[2].passed = JTrue
  /\ rows[1].n_resolved = Num(1) /\ rows[1].n_unresolved = Num(1)

====
